---------------------------- MODULE Spec2Model ----------------------------
(***************************************************************************)
(* Verification model of the inti-frontend-groq voice front-end.           *)
(*                                                                         *)
(* Several state machines share this module, each with its own             *)
(* specification:                                                          *)
(*                                                                         *)
(*   Spec      the voice session of src/src/app/Unmute.tsx together with   *)
(*             the audio-processor hook (src/unnamed/part_002):            *)
(*             connect button, react-use-websocket ready state, the        *)
(*             effects keyed on readyState, inbound dispatch, the capture  *)
(*             callback onPcmRecorded.  The variable variant selects the   *)
(*             other Unmute component of the repository                    *)
(*             (src/unnamed/part_009) where the two differ: its on-open    *)
(*             effect has no per-connection guard and sends                *)
(*             session.update, and it sends no context messages.           *)
(*   ProvSpec  the communication provider (src/unnamed/part_008, the same  *)
(*             connect logic as IntiCommunicationProvider.tsx): mount,     *)
(*             connect, socket open/error/close handlers, reconnect        *)
(*             timers, refreshAuth.                                        *)
(*   MediaSpec the voice session of Unmute.tsx with its inbound audio      *)
(*             path: output_audio routing, the decoder worker, the output  *)
(*             worklet, debug info (the capture side and the context       *)
(*             object are left to Spec).                                   *)
(*   EngSpec   the resampling/framing engine                               *)
(*             (src/public/pcm-audio-processor.js and the ScriptProcessor  *)
(*             fallback of part_002).                                      *)
(*   FnSpec    the sample conversions applied to one input value:          *)
(*             floatChunkToInt16 (part_002), uint8PcmToFloat32             *)
(*             (Unmute.tsx), and the engine fed a constant stream.         *)
(*   HookSpec  the audio-processor hook on its own (part_002):             *)
(*             setupAudio, split at its awaits, and shutdownAudio with     *)
(*             release steps that may fail, called in any order.           *)
(*                                                                         *)
(* The variables of the machines a specification does not drive keep their *)
(* initial values.                                                         *)
(***************************************************************************)
EXTENDS Integers, Sequences, FiniteSets, TLC

VARIABLES
    \* ---- voice session (Unmute.tsx) ----
    readyState,             \* useWebSocket's readyState
    shouldConnect,          \* useState(false), Unmute.tsx:60
    sessionReadyRef,        \* useRef(false), Unmute.tsx:69 (sessionReady mirrors it)
    sessionInitializedRef,  \* useRef(false), Unmute.tsx:70
    sentInitialUCORef,      \* useRef(false), Unmute.tsx:189
    audioProcessorRef,      \* useRef(null), part_002:62; 0 is null, else a processor id
    setupPending,           \* processors whose setupAudio call is awaiting
    released,               \* processors torn down by shutdownAudio
    nProcs,                 \* audio processors created so far
    rawChatHistory,         \* useState([]), Unmute.tsx:55
    errors,                 \* number of items of the error list, Unmute.tsx:64
    handed,                 \* messages passed to sendMessage, in call order
    pollTimers,             \* pending setTimeout(sendInitialUCOWhenReady, ...)
    ucoReady,               \* isUCOReady() of the message formatter
    conn,                   \* number of sockets created so far (history)
    connReady,              \* readiness message of the current socket dispatched (history)
    initRuns,               \* runs of the on-open initialization on the current socket (history)
    nFrames,                \* frames captured so far
    nMsgs,                  \* inbound messages delivered so far
    nPress,                 \* connect-button presses so far
    nDeps,                  \* context-object updates so far
    variant,                \* which Unmute component runs: "Unmute.tsx" or "part_009"
    portQueue,              \* frames posted by capture nodes, not yet handled on the main thread
    nMedia,                 \* inbound media and debug messages delivered so far
    debugDict,              \* useState(null), Unmute.tsx:51; 0 is null, else the message that set it
    decoderQueue,           \* chunks posted to a decoder worker, not yet decoded
    decodedQueue,           \* frames posted by a decoder worker, not yet handled on the main thread
    outputNode,             \* frames posted to the output worklet of a live processor, in order
    discarded,              \* decoded frames in flight that a teardown discarded (history)
    \* ---- communication provider (part_008) ----
    socks,                  \* the WebSocket objects with events still to come: id -> record
    nSocks,                 \* WebSocket objects constructed so far
    wsRef,                  \* useRef(null), part_008:64; 0 is null, else a socket id
    loading,                \* state.loading, part_008:56
    connected,              \* state.connected, part_008:60
    authenticated,          \* state.authenticated, part_008:58
    error,                  \* state.error, part_008:59
    reconnectTimers,        \* pending setTimeout(connect, 5000), part_008:352
    authCheckTimeoutRef,    \* useRef(null), part_008:65; TRUE when it holds a timer id
    authTimerPending,       \* the 4000 ms safety-valve timer is pending, part_008:508
    mounted,                \* "no", "yes", "gone": the provider's mount effect
    task,                   \* the socket whose closing events the browser is dispatching
    retries,                \* sockets created by reconnect timers since the last open event (history)
    intentReconnect,        \* a close the provider asked for, or with code 1000, scheduled a reconnect (history)
    sockAfterUnmount,       \* a socket was constructed while the provider was unmounted (history)
    nRefresh,               \* refreshAuth calls so far
    nMounts,                \* runs of the mount effect so far
    \* ---- resampling engine (pcm-audio-processor.js, part_002) ----
    eRate,                  \* sampleRate of the audio context, in Hz
    eImpl,                  \* "worklet" (PCMRecorderProcessor) or "script" (onaudioprocess fallback)
    eBuffer,                \* this._buffer / scriptBuffer, the accumulator
    eFed,                   \* every sample appended so far, in order (history)
    eConsumed,              \* samples removed from the accumulator so far (history)
    eEmitted,               \* frames emitted so far (history)
    eLast,                  \* the frames emitted by the last call, in order
    eCalls,                 \* calls of process / onaudioprocess so far
    \* ---- the sample conversions applied to one input (part_002, Unmute.tsx) ----
    fKind,                  \* the input: "number", "missing" (undefined) or "nan"
    fNum,                   \* a number input, in 1/(SubSteps * Unit)
    fStage,                 \* "input", "encoded", "decoded" or "resampled"
    fScaled,                \* the scaled sample before the Int16Array store
    fBytes,                 \* the two bytes of the encoded sample
    fDec,                   \* the decoded sample as <<numerator, denominator>>
    fFrames,                \* the frames emitted for the constant stream
    \* ---- the audio-processor hook (part_002) ----
    hRef,                   \* audioProcessorRef.current, part_002:62; 0 is null, else a processor id
    hCalls,                 \* the setupAudio calls so far, in call order
    hProcs,                 \* the processors built so far: their resources and release calls
    hShutdowns,             \* shutdownAudio calls so far
    hSince,                 \* processors whose audio context was created since the last shutdownAudio call (history)
    hThrew,                 \* a shutdownAudio call let an exception escape (history)
    \* ---- communication provider: authentication (part_008) ----
    authStateRef,           \* useRef(false), part_008:66
    bootstrapPending,       \* the fetch of /api/auth/me started by the mount effect is in flight, part_008:429
    \* ---- deduplicating provider (IntiCommunicationProvider-dedupe.tsx) ----
    ddSocks,                \* the sockets with events still to come: id -> readyState
    nDdSocks,               \* DeduplicatedWebSocket objects constructed so far
    ddRef,                  \* useRef(null), dedupe.tsx:59; 0 is null, else a socket id
    ddWsNull,               \* wrappers whose close() dropped their socket, deduplicatedWebSocket.ts:238
    connectAttemptRef,      \* useRef(0), dedupe.tsx:60
    ddTimers,               \* delays of the pending setTimeout(initializeConnection), dedupe.tsx:268
    ddError,                \* state.error, dedupe.tsx:54
    ddConnected,            \* state.connected, dedupe.tsx:55
    ddMounted,              \* "no", "yes", "gone": the provider's mount effect
    nDdMounts,              \* runs of the mount effect so far
    ddCloses,               \* close events since the last open event (history)
    \* ---- DeduplicatedWebSocket (deduplicatedWebSocket.ts) ----
    wsSocks,                \* the WebSocket objects with events still to come: id -> readyState
    nWsSocks,               \* WebSocket objects constructed so far
    wsWs,                   \* this.ws, deduplicatedWebSocket.ts:19; 0 is null, else a socket id
    sentMessages,           \* this.sentMessages, :21: hash -> timestamp
    messageQueue,           \* this.messageQueue, :22
    cleanupInterval,        \* the interval of startCleanup is running, :255
    nextCleanup,            \* the time the interval is due next
    wsNow,                  \* Date.now(), in ms since the construction
    wsLastTx,               \* message -> the time it was last handed to WebSocket.send (history)
    wsBurst,                \* messages handed to WebSocket.send by the last step (history)
    wsShifted,              \* queueMessage discarded the oldest message of a full queue (history)
    wsDup,                  \* a message was handed to WebSocket.send less than debounceMs after an identical one (history)
    wsLast,                 \* the last send() call: its message, its result, whether it was skipped (history)
    wsUses,                 \* the messages the application sends in this run
    nWsSends,               \* send() calls so far, counted when the run uses several messages
    nWsTicks,               \* advances of the clock so far
    \* ---- useRequestDeduplication (useRequestDeduplication.ts) ----
    pendingRequests,        \* useRef(new Map()), :36: key -> the timestamp of its entry
    responseCache,          \* useRef(new Map()), :37: key -> timestamp
    rdInFlight,             \* request functions invoked and not settled: call -> key and start time
    rdNow,                  \* Date.now(), in ms since the first render
    rdNextCleanup,          \* the time the cleanup interval is due next, :66
    rdStarted,              \* key -> the time its request function was last invoked (history)
    rdTooSoon,              \* a request function was invoked less than debounceMs after the last one for its key (history)
    rdLast,                 \* what the last call returned: "cached", "pending", "null", "invoked", "sent", "notOpen", "skipped" (history)
    nRdKeys,                \* distinct WebSocket messages sent so far
    nRdCalls,               \* calls of the request function so far
    nRdTicks,               \* advances of the clock so far
    \* ---- LLM chat route (api/llm/chat/route.ts) ----
    rateLimitMap,           \* route.ts:8: client id -> count and resetTime
    rlNow,                  \* Date.now(), in ms since the server started
    rlWindow,               \* client id -> the time of the first admitted request of its window and the requests admitted in it (history)
    rlLast,                 \* the last POST: its client, its status, whether verifyAuth and request.json() ran (history)
    nRlTicks,               \* advances of the clock so far
    \* ---- which handler ran last (all machines) ----
    op

voiceVars == <<readyState, shouldConnect, sessionReadyRef, sessionInitializedRef,
               sentInitialUCORef, audioProcessorRef, setupPending, released,
               nProcs, rawChatHistory, errors, handed, pollTimers, ucoReady,
               conn, connReady, initRuns, nFrames, nMsgs, nPress, nDeps, variant,
               portQueue, nMedia, debugDict, decoderQueue, decodedQueue, outputNode,
               discarded>>

\* the inbound audio path: debug info, decoder worker, output worklet
mediaVars == <<nMedia, debugDict, decoderQueue, decodedQueue, outputNode, discarded>>

provVars == <<socks, nSocks, wsRef, loading, connected, authenticated, error,
              reconnectTimers, authCheckTimeoutRef, authTimerPending, mounted,
              task, retries, intentReconnect, sockAfterUnmount, nRefresh,
              nMounts>>

engVars == <<eRate, eImpl, eBuffer, eFed, eConsumed, eEmitted, eLast, eCalls>>

fnVars == <<fKind, fNum, fStage, fScaled, fBytes, fDec, fFrames>>

hookVars == <<hRef, hCalls, hProcs, hShutdowns, hSince, hThrew>>

authVars == <<authStateRef, bootstrapPending>>

ddVars == <<ddSocks, nDdSocks, ddRef, ddWsNull, connectAttemptRef, ddTimers,
            ddError, ddConnected, ddMounted, nDdMounts, ddCloses>>

\* the state of the machines that stand beside the voice session
dwsVars == <<wsSocks, nWsSocks, wsWs, sentMessages, messageQueue,
             cleanupInterval, nextCleanup, wsNow, wsLastTx, wsBurst, wsDup,
             wsShifted, wsLast, wsUses, nWsSends, nWsTicks>>

rdVars == <<pendingRequests, responseCache, rdInFlight, rdNow, rdNextCleanup,
            rdStarted, rdTooSoon, rdLast, nRdKeys, nRdCalls, nRdTicks>>

rlVars == <<rateLimitMap, rlNow, rlWindow, rlLast, nRlTicks>>

auxVars == <<authVars, ddVars, dwsVars, rdVars, rlVars>>

\* what the actions of one of these machines leave alone in the others
authRest == <<ddVars, dwsVars, rdVars, rlVars>>
ddRest == <<authVars, dwsVars, rdVars, rlVars>>
dwsRest == <<authVars, ddVars, rdVars, rlVars>>
rdRest == <<authVars, ddVars, dwsVars, rlVars>>
rlRest == <<authVars, ddVars, dwsVars, rdVars>>

vars == <<voiceVars, provVars, engVars, fnVars, hookVars, auxVars, op>>

-----------------------------------------------------------------------------
(* Constants of the program *)

PCM_SAMPLE_RATE == 24000    \* pcm-audio-processor.js:1, part_002:3
PCM_FRAME_SAMPLES == 480    \* pcm-audio-processor.js:2, part_002:4

-----------------------------------------------------------------------------
(* Bounds of the voice model *)

MaxProcs == 2      \* audio processors created
MaxPress == 2      \* connect-button presses
MaxConn == 2       \* sockets opened by useWebSocket
MaxFrames == 2     \* captured frames
MaxMsgs == 2       \* inbound messages
MaxDeps == 1       \* updates of the context object

-----------------------------------------------------------------------------
(* Voice session: helpers *)

ReadyStates == {"UNINSTANTIATED", "CONNECTING", "OPEN", "CLOSING", "CLOSED"}

\* Unmute.tsx:278 and :428, the test both close effects make
IsClosingOrClosed(rs) == rs \in {"CLOSING", "CLOSED"}

\* Unmute.tsx:204, the gate of onPcmRecorded: TRUE lets the frame through
GateOpen == sessionReadyRef

\* Unmute.tsx:176-183, sendJsonMessage: the payload is handed to sendMessage
Send(q, m) == Append(q, m)

\* Unmute.tsx:209-214, the input_audio message of frame f of capture node p
AudioMsg(f, p) == [type |-> "input_audio", frame |-> f, proc |-> p, conn |-> conn,
                   rs |-> readyState, connReady |-> connReady]
CtlMsg(t) == [type |-> t, frame |-> 0, proc |-> 0, conn |-> conn,
              rs |-> readyState, connReady |-> connReady]

\* part_002:207-250, shutdownAudio: releases the registered processor, if any
ShutdownRef == 0
ShutdownReleased == IF audioProcessorRef = 0 THEN released
                    ELSE released \cup {audioProcessorRef}

\* the entries of q that do not belong to the registered processor
OfOthers(q) == SelectSeq(q, LAMBDA e : e.proc # audioProcessorRef)

\* part_002:157-161, cleanupCapture closes the port of the capture node: the
\* frames it has posted and the main thread has not handled yet are
\* discarded, or still delivered (keep)
ShutdownPort(keep) == IF keep THEN portQueue ELSE OfOthers(portQueue)

\* part_002:238, decoder.terminate(): what the worker had not decoded is lost
ShutdownDecoder == OfOthers(decoderQueue)

\* a terminate() after which the frames already posted are still delivered
ShutdownDecodedKeeps == decodedQueue

\* part_002:238, decoder.terminate(): the frames the worker has posted and
\* the main thread has not handled yet are discarded (terminating a
\* dedicated worker empties the message queue of its outside port)
ShutdownDecoded == OfOthers(decodedQueue)

\* the number of frames in flight that decoder.terminate() discards
ShutdownDiscards == Len(decodedQueue) - Len(ShutdownDecoded)

\* part_002:232, outputWorklet.disconnect(): the frames posted to it are not
\* played any more
ShutdownOutput == OfOthers(outputNode)

\* no closing event is being dispatched
NoTask == [sock |-> 0, errorDue |-> FALSE]

\* part_008:55-66, the provider after construction, before its mount effect
ProvInitState ==
    /\ socks = [i \in {} |-> 0]
    /\ nSocks = 0
    /\ wsRef = 0
    /\ loading = TRUE
    /\ connected = FALSE
    /\ authenticated = FALSE
    /\ error = "null"
    /\ reconnectTimers = 0
    /\ authCheckTimeoutRef = FALSE
    /\ authTimerPending = FALSE
    /\ mounted = "no"
    /\ task = NoTask
    /\ retries = 0
    /\ intentReconnect = FALSE
    /\ sockAfterUnmount = FALSE
    /\ nRefresh = 0
    /\ nMounts = 0

\* part_008:66, the authentication ref after construction; no fetch started
AuthInitState ==
    /\ authStateRef = FALSE
    /\ bootstrapPending = FALSE

\* dedupe.tsx:50-62, the deduplicating provider after construction
DdInitState ==
    /\ ddSocks = [i \in {} |-> "CLOSED"]
    /\ nDdSocks = 0
    /\ ddRef = 0
    /\ ddWsNull = {}
    /\ connectAttemptRef = 0
    /\ ddTimers = <<>>
    /\ ddError = "null"
    /\ ddConnected = FALSE
    /\ ddMounted = "no"
    /\ nDdMounts = 0
    /\ ddCloses = 0

\* deduplicatedWebSocket.ts:23-25
debounceMs == 100
maxRetries == 3
messageTTL == 5000

\* deduplicatedWebSocket.ts:152, the largest queue kept
QueueLimit == 50

\* deduplicatedWebSocket.ts:269, the period of the cleanup interval, in ms
CleanupEveryMs == 10000

\* deduplicatedWebSocket.ts:19-38, the wrapper after construction: no
\* socket, nothing sent or queued, the cleanup interval started
DwsInitState ==
    /\ wsSocks = [i \in {} |-> "CLOSED"]
    /\ nWsSocks = 0
    /\ wsWs = 0
    /\ sentMessages = [h \in {} |-> 0]
    /\ messageQueue = <<>>
    /\ cleanupInterval = TRUE
    /\ nextCleanup = CleanupEveryMs
    /\ wsNow = 0
    /\ wsLastTx = [m \in {} |-> 0]
    /\ wsBurst = 0
    /\ wsDup = FALSE
    /\ wsShifted = FALSE
    /\ wsLast = [message |-> <<>>, result |-> FALSE, skipped |-> FALSE]
    /\ nWsSends = 0
    /\ nWsTicks = 0

\* useRequestDeduplication.ts:66, the period of the cleanup interval, in ms
RdCleanupEveryMs == 5000

\* useRequestDeduplication.ts:36-37, the hook after its first render
RdInitState ==
    /\ pendingRequests = [k \in {} |-> 0]
    /\ responseCache = [k \in {} |-> 0]
    /\ rdInFlight = [c \in {} |-> 0]
    /\ rdNow = 0
    /\ rdNextCleanup = RdCleanupEveryMs
    /\ rdStarted = [k \in {} |-> 0]
    /\ rdTooSoon = FALSE
    /\ rdLast = "none"
    /\ nRdKeys = 0
    /\ nRdCalls = 0
    /\ nRdTicks = 0

\* route.ts:8, the rate limiter of a server that has handled no request
RlInitState ==
    /\ rateLimitMap = [c \in {} |-> 0]
    /\ rlNow = 0
    /\ rlWindow = [c \in {} |-> 0]
    /\ rlLast = [client |-> "none", status |-> 0, auth |-> FALSE, body |-> FALSE]
    /\ nRlTicks = 0

AuxInitState ==
    /\ AuthInitState
    /\ DdInitState
    /\ DwsInitState
    /\ RdInitState
    /\ RlInitState

\* pcm-audio-processor.js:5-10, the engine after construction (the rate and
\* the realization are chosen by the initial condition of each machine)
EngInitState ==
    /\ eBuffer = <<>>
    /\ eFed = <<>>
    /\ eConsumed = 0
    /\ eEmitted = 0
    /\ eLast = <<>>
    /\ eCalls = 0

\* no conversion applied yet, to the input 0
FnInitState ==
    /\ fKind = "number"
    /\ fNum = 0
    /\ fStage = "input"
    /\ fScaled = 0
    /\ fBytes = <<0, 0>>
    /\ fDec = <<0, 1>>
    /\ fFrames = <<>>

\* part_002:62, the audio-processor hook after construction
HookInitState ==
    /\ hRef = 0
    /\ hCalls = <<>>
    /\ hProcs = <<>>
    /\ hShutdowns = 0
    /\ hSince = {}
    /\ hThrew = FALSE

\* Unmute.tsx:51-70 and part_002:62, the voice session after construction
VoiceInitState ==
    /\ readyState = "UNINSTANTIATED"
    /\ shouldConnect = FALSE
    /\ sessionReadyRef = FALSE
    /\ sessionInitializedRef = FALSE
    /\ sentInitialUCORef = FALSE
    /\ audioProcessorRef = 0
    /\ setupPending = {}
    /\ released = {}
    /\ nProcs = 0
    /\ rawChatHistory = <<>>
    /\ errors = 0
    /\ handed = <<>>
    /\ pollTimers = 0
    /\ conn = 0
    /\ connReady = FALSE
    /\ initRuns = 0
    /\ nFrames = 0
    /\ nMsgs = 0
    /\ nPress = 0
    /\ nDeps = 0
    /\ portQueue = <<>>
    /\ nMedia = 0
    /\ debugDict = 0
    /\ decoderQueue = <<>>
    /\ decodedQueue = <<>>
    /\ outputNode = <<>>
    /\ discarded = 0

\* The two Unmute components of the repository
Variants == {"Unmute.tsx", "part_009"}

Init ==
    /\ VoiceInitState
    /\ ucoReady \in BOOLEAN
    /\ variant \in Variants
    /\ ProvInitState
    /\ EngInitState
    /\ eRate = PCM_SAMPLE_RATE
    /\ eImpl = "worklet"
    /\ FnInitState
    /\ HookInitState
    /\ AuxInitState
    /\ wsUses = {}
    /\ op = "init"

-----------------------------------------------------------------------------
(* Voice session: the effects keyed on readyState *)

\* Unmute.tsx:385-420 (part_009:381-413), sendInitialUCOWhenReady with the
\* formatter reporting ready or not: nothing once the initial context was
\* sent; a retry timer while the formatter reports not_ready; otherwise the
\* sent flag, and in Unmute.tsx one input_text message.
UCOSendNow(ready) == ~sentInitialUCORef /\ ready
UCORetry(ready) == ~sentInitialUCORef /\ ~ready

\* Unmute.tsx:372-373 has the per-connection guard, part_009:336-337 has none
HasInitGuard == variant = "Unmute.tsx"

\* part_009:368-378 sends session.update from the on-open effect; Unmute.tsx
\* sends no session configuration
SendsConfig == variant = "part_009"

\* Unmute.tsx:406-409 and :446-449 send the context; part_009:403 and :432
\* have the sends disabled
SendsUCO == variant = "Unmute.tsx"

\* Unmute.tsx:373, the per-connection guard of the on-open effect
InitGuardBlocks == HasInitGuard /\ sessionInitializedRef

\* Unmute.tsx:372-373, whether the on-open effect body runs for ready state rs
InitRunsFor(rs) == rs = "OPEN" /\ ~InitGuardBlocks

\* Unmute.tsx:427-431, whether the guard-reset effect clears the guard
GuardResetFor(rs) == IsClosingOrClosed(rs)

\* a close effect that forgets the CLOSING state
TeardownOnlyClosed(rs) == rs = "CLOSED"

\* Unmute.tsx:277-282, whether the close effect tears the session down
TeardownFor(rs) == IsClosingOrClosed(rs)

\* Unmute.tsx:371-424 (part_009:336-417), the on-open effect; runs tells
\* whether its body runs, ready what the formatter reports, delta whether the
\* context-delta effect that follows it (Unmute.tsx:439-456) finds a
\* non-empty delta to send.
OnOpenAndDeltaEffects(rs, runs, ready, delta) ==
    LET h1 == IF runs /\ SendsConfig
              THEN Send(handed, CtlMsg("session.update")) ELSE handed
        h2 == IF runs /\ UCOSendNow(ready) /\ SendsUCO
              THEN Send(h1, CtlMsg("input_text")) ELSE h1
        sent == sentInitialUCORef \/ (runs /\ UCOSendNow(ready))
        h3 == IF rs = "OPEN" /\ sent /\ SendsUCO /\ delta
              THEN Send(h2, CtlMsg("input_text_delta")) ELSE h2
    IN  /\ handed' = h3
        /\ sentInitialUCORef' = sent
        /\ rawChatHistory' = IF runs THEN <<>> ELSE rawChatHistory
        /\ sessionReadyRef' = IF runs THEN FALSE ELSE sessionReadyRef
        /\ initRuns' = IF runs THEN initRuns + 1 ELSE initRuns
        /\ pollTimers' = IF runs /\ UCORetry(ready) THEN pollTimers + 1 ELSE pollTimers

\* The render after readyState became rs: the effects with readyState among
\* their dependencies run in source order (277-282, 371-424, 427-431,
\* 439-456).
EffectsOnReadyState(rs) ==
    /\ readyState' = rs
    \* close effect: setShouldConnect(false); shutdownAudio()
    /\ shouldConnect' = IF TeardownFor(rs) THEN FALSE ELSE shouldConnect
    /\ audioProcessorRef' = IF TeardownFor(rs) THEN ShutdownRef ELSE audioProcessorRef
    /\ released' = IF TeardownFor(rs) THEN ShutdownReleased ELSE released
    /\ \E keep \in BOOLEAN :
         portQueue' = IF TeardownFor(rs) THEN ShutdownPort(keep) ELSE portQueue
    /\ decoderQueue' = IF TeardownFor(rs) THEN ShutdownDecoder ELSE decoderQueue
    /\ decodedQueue' = IF TeardownFor(rs) THEN ShutdownDecoded ELSE decodedQueue
    /\ discarded' = IF TeardownFor(rs) THEN discarded + ShutdownDiscards ELSE discarded
    /\ outputNode' = IF TeardownFor(rs) THEN ShutdownOutput ELSE outputNode
    \* on-open effect, context-delta effect
    /\ \E delta \in BOOLEAN :
         OnOpenAndDeltaEffects(rs, InitRunsFor(rs), ucoReady, delta)
    \* guard: set by the on-open effect, cleared by the reset effect
    /\ sessionInitializedRef' =
          IF ~HasInitGuard THEN sessionInitializedRef
          ELSE IF GuardResetFor(rs) THEN FALSE
          ELSE IF InitRunsFor(rs) THEN TRUE
          ELSE sessionInitializedRef

\* A render in which the context object, and with it the identity of
\* formatMessageWithUCO (useUCOMessageFormatter.tsx:316), changed while
\* readyState did not.  Unmute.tsx: the on-open effect depends on readyState
\* only (:424) and does not run; the context-delta effect (:456) runs.
\* part_009: the on-open effect depends on formatMessageWithUCO (:417) and
\* runs again.
EffectsOnDependencyChange(ready) ==
    \E delta \in BOOLEAN :
        OnOpenAndDeltaEffects(readyState, ~HasInitGuard /\ readyState = "OPEN",
                              ready, delta)

-----------------------------------------------------------------------------
(* Voice session: actions *)

\* Unmute.tsx:232-240, onConnectButtonPress while not connected, up to the
\* await inside setupAudio (part_002:64-80). Microphone access is granted or
\* refused; setupAudio returns the registered processor when there is one,
\* else it starts building a new one.
BeginConnect ==
    /\ ~shouldConnect
    /\ nPress < MaxPress
    /\ nPress' = nPress + 1
    /\ \E granted \in BOOLEAN :
         IF ~granted
         THEN /\ op' = "micDenied"
              /\ UNCHANGED <<shouldConnect, setupPending, nProcs>>
         ELSE IF audioProcessorRef # 0
         THEN /\ op' = "setupReused"
              /\ shouldConnect' = TRUE
              /\ UNCHANGED <<setupPending, nProcs>>
         ELSE /\ nProcs < MaxProcs
              /\ op' = "setupBegun"
              /\ nProcs' = nProcs + 1
              /\ setupPending' = setupPending \cup {nProcs + 1}
              /\ UNCHANGED shouldConnect
    /\ UNCHANGED <<readyState, sessionReadyRef, sessionInitializedRef,
                   sentInitialUCORef, audioProcessorRef, released, rawChatHistory,
                   errors, handed, pollTimers, ucoReady, conn, connReady,
                   initRuns, nFrames, nMsgs>>
    /\ UNCHANGED <<nDeps, variant>>
    /\ UNCHANGED <<portQueue, mediaVars>>
    /\ UNCHANGED provVars
    /\ UNCHANGED engVars
    /\ UNCHANGED fnVars
    /\ UNCHANGED hookVars
    /\ UNCHANGED auxVars

\* part_002:190-203 and Unmute.tsx:238-239: the awaited setup completes, the
\* processor is registered and setShouldConnect(true) follows.
FinishSetup ==
    /\ \E p \in setupPending :
         /\ setupPending' = setupPending \ {p}
         /\ audioProcessorRef' = p
    /\ shouldConnect' = TRUE
    /\ op' = "setupDone"
    /\ UNCHANGED <<nProcs, readyState, sessionReadyRef, sessionInitializedRef,
                   sentInitialUCORef, released, rawChatHistory, errors, handed,
                   pollTimers, ucoReady, conn, connReady, initRuns, nFrames,
                   nMsgs, nPress>>
    /\ UNCHANGED <<nDeps, variant>>
    /\ UNCHANGED <<portQueue, mediaVars>>
    /\ UNCHANGED provVars
    /\ UNCHANGED engVars
    /\ UNCHANGED fnVars
    /\ UNCHANGED hookVars
    /\ UNCHANGED auxVars

\* Unmute.tsx:241-245 (part_009:221-224, without the session_end message),
\* onConnectButtonPress while connected
Disconnect ==
    /\ shouldConnect
    /\ nPress < MaxPress
    /\ nPress' = nPress + 1
    /\ shouldConnect' = FALSE
    /\ handed' = IF variant = "Unmute.tsx"
                  THEN Send(handed, CtlMsg("session_end")) ELSE handed
    /\ audioProcessorRef' = ShutdownRef
    /\ released' = ShutdownReleased
    /\ \E keep \in BOOLEAN : portQueue' = ShutdownPort(keep)
    /\ decoderQueue' = ShutdownDecoder
    /\ decodedQueue' = ShutdownDecoded
    /\ discarded' = discarded + ShutdownDiscards
    /\ outputNode' = ShutdownOutput
    /\ op' = "disconnect"
    /\ UNCHANGED <<nProcs, readyState, sessionReadyRef, sessionInitializedRef,
                   sentInitialUCORef, setupPending, rawChatHistory, errors,
                   pollTimers, ucoReady, conn, connReady, initRuns, nFrames, nMsgs>>
    /\ UNCHANGED <<nDeps, variant>>
    /\ UNCHANGED <<nMedia, debugDict>>
    /\ UNCHANGED provVars
    /\ UNCHANGED engVars
    /\ UNCHANGED fnVars
    /\ UNCHANGED hookVars
    /\ UNCHANGED auxVars

\* Unmute.tsx:143-166: useWebSocket creates a socket once socketUrl is set
SocketConnecting ==
    /\ shouldConnect
    /\ readyState \in {"UNINSTANTIATED", "CLOSED"}
    /\ conn < MaxConn
    /\ conn' = conn + 1
    /\ connReady' = FALSE
    /\ initRuns' = 0
    /\ readyState' = "CONNECTING"
    /\ op' = "connecting"
    /\ UNCHANGED <<nProcs, shouldConnect, sessionReadyRef, sessionInitializedRef,
                   sentInitialUCORef, audioProcessorRef, setupPending, released,
                   rawChatHistory, errors, handed, pollTimers, ucoReady,
                   nFrames, nMsgs, nPress>>
    /\ UNCHANGED <<nDeps, variant>>
    /\ UNCHANGED <<portQueue, mediaVars>>
    /\ UNCHANGED provVars
    /\ UNCHANGED engVars
    /\ UNCHANGED fnVars
    /\ UNCHANGED hookVars
    /\ UNCHANGED auxVars

\* the socket's open event
SocketOpen ==
    /\ readyState = "CONNECTING"
    /\ EffectsOnReadyState("OPEN")
    /\ op' = "open"
    /\ UNCHANGED <<nProcs, setupPending, errors, ucoReady, conn, connReady, nFrames,
                   nMsgs, nPress>>
    /\ UNCHANGED <<nDeps, variant>>
    /\ UNCHANGED <<nMedia, debugDict>>
    /\ UNCHANGED provVars
    /\ UNCHANGED engVars
    /\ UNCHANGED fnVars
    /\ UNCHANGED hookVars
    /\ UNCHANGED auxVars

\* the socket starts its closing handshake
SocketClosing ==
    /\ readyState \in {"CONNECTING", "OPEN"}
    /\ EffectsOnReadyState("CLOSING")
    /\ connReady' = FALSE
    /\ op' = "closing"
    /\ UNCHANGED <<nProcs, setupPending, errors, ucoReady, conn, nFrames, nMsgs, nPress>>
    /\ UNCHANGED <<nDeps, variant>>
    /\ UNCHANGED <<nMedia, debugDict>>
    /\ UNCHANGED provVars
    /\ UNCHANGED engVars
    /\ UNCHANGED fnVars
    /\ UNCHANGED hookVars
    /\ UNCHANGED auxVars

\* the socket's close event (by the peer, the network, or because socketUrl
\* became null)
SocketClosed ==
    /\ readyState \in {"CONNECTING", "OPEN", "CLOSING"}
    /\ EffectsOnReadyState("CLOSED")
    /\ connReady' = FALSE
    /\ op' = "closed"
    /\ UNCHANGED <<nProcs, setupPending, errors, ucoReady, conn, nFrames, nMsgs, nPress>>
    /\ UNCHANGED <<nDeps, variant>>
    /\ UNCHANGED <<nMedia, debugDict>>
    /\ UNCHANGED provVars
    /\ UNCHANGED engVars
    /\ UNCHANGED fnVars
    /\ UNCHANGED hookVars
    /\ UNCHANGED auxVars

\* pcm-audio-processor.js:35, this.port.postMessage({ pcm }): the capture
\* node of the registered processor completes a frame and posts it
CaptureFrame ==
    /\ audioProcessorRef # 0
    /\ nFrames < MaxFrames
    /\ nFrames' = nFrames + 1
    /\ portQueue' = Append(portQueue, [proc |-> audioProcessorRef, frame |-> nFrames + 1])
    /\ op' = "framePosted"
    /\ UNCHANGED <<nProcs, readyState, shouldConnect, sessionReadyRef, sessionInitializedRef,
                   sentInitialUCORef, audioProcessorRef, setupPending, released,
                   rawChatHistory, errors, handed, pollTimers, ucoReady, conn,
                   connReady, initRuns, nMsgs, nPress>>
    /\ UNCHANGED <<nDeps, variant>>
    /\ UNCHANGED mediaVars
    /\ UNCHANGED provVars
    /\ UNCHANGED engVars
    /\ UNCHANGED fnVars
    /\ UNCHANGED hookVars
    /\ UNCHANGED auxVars

\* the ports that have a frame waiting
PortsWaiting == {portQueue[k].proc : k \in 1..Len(portQueue)}

\* a port that delivers the newest of its messages first
PortLast(q, p) == CHOOSE k \in 1..Len(q) :
                     q[k].proc = p /\ \A j \in (k + 1)..Len(q) : q[j].proc # p

\* the message the port of capture node p delivers next: the oldest one
PortHead(q, p) == CHOOSE k \in 1..Len(q) :
                     q[k].proc = p /\ \A j \in 1..(k - 1) : q[j].proc # p

\* q without its element k
Without(q, k) == SubSeq(q, 1, k - 1) \o SubSeq(q, k + 1, Len(q))

\* part_002:142-148 then Unmute.tsx:200-217: the message event of a capture
\* node's port, one per posted frame, oldest first; onPcmRecorded sends the
\* frame or drops it
PortMessage ==
    /\ \E p \in PortsWaiting :
         LET k == PortHead(portQueue, p)
             m == portQueue[k]
         IN  /\ portQueue' = Without(portQueue, k)
             /\ handed' = IF GateOpen THEN Send(handed, AudioMsg(m.frame, m.proc))
                           ELSE handed
    /\ op' = IF GateOpen THEN "frameSent" ELSE "frameDropped"
    /\ UNCHANGED <<nProcs, readyState, shouldConnect, sessionReadyRef, sessionInitializedRef,
                   sentInitialUCORef, audioProcessorRef, setupPending, released,
                   rawChatHistory, errors, pollTimers, ucoReady, conn, connReady,
                   initRuns, nFrames, nMsgs, nPress>>
    /\ UNCHANGED <<nDeps, variant>>
    /\ UNCHANGED mediaVars
    /\ UNCHANGED provVars
    /\ UNCHANGED engVars
    /\ UNCHANGED fnVars
    /\ UNCHANGED hookVars
    /\ UNCHANGED auxVars

\* Inbound message types dispatched by Unmute.tsx:285-368
MsgTypes == {"session.ready", "transcript", "transcript_blank", "assistant_text",
             "error_warning", "error_other", "unknown"}

\* a chat history that grows at the front
PrependItem(h, item) == <<item>> \o h

\* Unmute.tsx:305 and :318, [...prev, item]
AppendItem(h, item) == Append(h, item)

\* A chat item; its content is the text of inbound message id
ChatItem(r, id) == [role |-> r, content |-> id]

\* Unmute.tsx:301-310, the transcript update of the chat history with the
\* text of message id: a new user item, or the text of the last item
\* replaced when that is a user item
TranscriptUpdate(h, id) ==
    IF Len(h) = 0 \/ h[Len(h)].role # "user"
    THEN AppendItem(h, ChatItem("user", id))
    ELSE [h EXCEPT ![Len(h)] = ChatItem("user", id)]

\* an error list that takes an item for unknown messages too
ErrorsAfterUnknown(t, n) == IF t \in {"error_other", "unknown"} THEN n + 1 ELSE n

\* an error list that takes an item for warnings too
ErrorsAfterWarning(t, n) == IF t \in {"error_other", "error_warning"} THEN n + 1 ELSE n

\* Unmute.tsx:357-364, the error list after a message of type t: one more
\* item for an error that is not a warning
ErrorsAfter(t, n) == IF t = "error_other" THEN n + 1 ELSE n

\* Unmute.tsx:285-368: a message arrives on the open socket and is dispatched
ReceiveMessage ==
    /\ readyState = "OPEN"
    /\ nMsgs < MaxMsgs
    /\ nMsgs' = nMsgs + 1
    /\ \E t \in MsgTypes :
         LET id == nMsgs + nMedia + 1
         IN  /\ op' = t
             /\ sessionReadyRef' = IF t = "session.ready" THEN TRUE ELSE sessionReadyRef
             /\ connReady' = IF t = "session.ready" THEN TRUE ELSE connReady
             /\ rawChatHistory' =
                   CASE t = "transcript" -> TranscriptUpdate(rawChatHistory, id)
                     [] t = "assistant_text" ->
                          AppendItem(rawChatHistory, ChatItem("assistant", id))
                     [] OTHER -> rawChatHistory
             /\ errors' = ErrorsAfter(t, errors)
    /\ UNCHANGED <<nProcs, readyState, shouldConnect, sessionInitializedRef,
                   sentInitialUCORef, audioProcessorRef, setupPending, released,
                   handed, pollTimers, ucoReady, conn, initRuns, nFrames, nPress>>
    /\ UNCHANGED <<nDeps, variant>>
    /\ UNCHANGED <<portQueue, mediaVars>>
    /\ UNCHANGED provVars
    /\ UNCHANGED engVars
    /\ UNCHANGED fnVars
    /\ UNCHANGED hookVars
    /\ UNCHANGED auxVars

\* Unmute.tsx:397, a retry timer of sendInitialUCOWhenReady fires
PollTimerFires ==
    /\ pollTimers > 0
    /\ handed' = IF UCOSendNow(ucoReady) /\ SendsUCO
                  THEN Send(handed, CtlMsg("input_text")) ELSE handed
    /\ sentInitialUCORef' = (sentInitialUCORef \/ UCOSendNow(ucoReady))
    /\ pollTimers' = IF UCORetry(ucoReady) THEN pollTimers ELSE pollTimers - 1
    /\ op' = IF UCORetry(ucoReady) THEN "pollRetry" ELSE "pollDone"
    /\ UNCHANGED <<nProcs, readyState, shouldConnect, sessionReadyRef, sessionInitializedRef,
                   audioProcessorRef, setupPending, released, rawChatHistory,
                   errors, ucoReady, conn, connReady, initRuns, nFrames, nMsgs,
                   nPress>>
    /\ UNCHANGED <<nDeps, variant>>
    /\ UNCHANGED <<portQueue, mediaVars>>
    /\ UNCHANGED provVars
    /\ UNCHANGED engVars
    /\ UNCHANGED fnVars
    /\ UNCHANGED hookVars
    /\ UNCHANGED auxVars

\* the context object becomes ready (useUCOMessageFormatter.tsx:124-163): a
\* dependency change whose effects see the formatter report ready
UCOBecomesReady ==
    /\ ~ucoReady
    /\ ucoReady' = TRUE
    /\ EffectsOnDependencyChange(TRUE)
    /\ op' = "ucoReady"
    /\ UNCHANGED <<nProcs, readyState, shouldConnect, sessionInitializedRef,
                   audioProcessorRef, setupPending, released, errors, conn,
                   connReady, nFrames, nMsgs, nPress>>
    /\ UNCHANGED <<nDeps, variant>>
    /\ UNCHANGED <<portQueue, mediaVars>>
    /\ UNCHANGED provVars
    /\ UNCHANGED engVars
    /\ UNCHANGED fnVars
    /\ UNCHANGED hookVars
    /\ UNCHANGED auxVars

\* the context object changes (useUCO): a dependency change
DependencyChange ==
    /\ nDeps < MaxDeps
    /\ nDeps' = nDeps + 1
    /\ EffectsOnDependencyChange(ucoReady)
    /\ op' = "ucoChanged"
    /\ UNCHANGED <<nProcs, readyState, shouldConnect, sessionInitializedRef,
                   audioProcessorRef, setupPending, released, errors, ucoReady,
                   conn, connReady, nFrames, nMsgs, nPress>>
    /\ UNCHANGED variant
    /\ UNCHANGED <<portQueue, mediaVars>>
    /\ UNCHANGED provVars
    /\ UNCHANGED engVars
    /\ UNCHANGED fnVars
    /\ UNCHANGED hookVars
    /\ UNCHANGED auxVars

-----------------------------------------------------------------------------
(* Voice session: inbound audio and debug messages *)

MaxMedia == 2      \* inbound output_audio / additional_outputs messages

\* The decoded bytes of the data field of an output_audio message: an Ogg
\* page, the first three bytes of the Ogg magic, four bytes that differ from
\* the magic in the last one, raw 16-bit PCM
PayloadBytes == {<<79, 103, 103, 83, 0, 2>>, <<79, 103, 103>>,
                 <<79, 103, 103, 84>>, <<0, 128, 255, 127>>}

\* Unmute.tsx:322, data.data: a base64 string or undefined
Payloads == {[present |-> FALSE, bytes |-> <<>>]}
            \cup {[present |-> TRUE, bytes |-> b] : b \in PayloadBytes}

\* a test of the first three bytes only
IsLikelyOggThree(bytes) ==
    Len(bytes) >= 3 /\ bytes[1] = 79 /\ bytes[2] = 103 /\ bytes[3] = 103

\* Unmute.tsx:33-34, isLikelyOgg: at least four bytes, the first four
\* 0x4f 0x67 0x67 0x53
IsLikelyOgg(bytes) ==
    Len(bytes) >= 4 /\ bytes[1] = 79 /\ bytes[2] = 103 /\ bytes[3] = 103
                    /\ bytes[4] = 83

\* Unmute.tsx:37, the sample count of uint8PcmToFloat32
SampleCount(bytes) == Len(bytes) \div 2

\* a post that puts the frame in front of the waiting ones
PostToOutputFront(out, e) == <<e>> \o out

\* part_002:107-111 and Unmute.tsx:345-352, outputWorklet.port.postMessage:
\* the frame joins those posted to the output worklet
PostToOutput(out, e) == Append(out, e)

\* Unmute.tsx:334-340, ap.decoder.postMessage({command: "decode", pages})
PostToDecoder(q, e) == Append(q, e)

\* Unmute.tsx:321-356 of the message effect: an output_audio or
\* unmute.additional_outputs message arrives on the open socket
ReceiveMedia ==
    /\ readyState = "OPEN"
    /\ nMedia < MaxMedia
    /\ nMedia' = nMedia + 1
    /\ LET id == nMsgs + nMedia + 1
           ap == audioProcessorRef
       IN  \/ /\ op' = "unmute.additional_outputs"
              /\ debugDict' = id
              /\ UNCHANGED <<decoderQueue, outputNode>>
           \/ \E pl \in Payloads :
                /\ UNCHANGED debugDict
                /\ IF ~pl.present
                   THEN /\ op' = "audioNoPayload"
                        /\ UNCHANGED <<decoderQueue, outputNode>>
                   ELSE IF ap = 0
                   THEN /\ op' = "audioNoProcessor"
                        /\ UNCHANGED <<decoderQueue, outputNode>>
                   ELSE IF IsLikelyOgg(pl.bytes)
                   THEN /\ op' = "audioToDecoder"
                        /\ decoderQueue' =
                              PostToDecoder(decoderQueue,
                                            [msg |-> id, proc |-> ap, bytes |-> pl.bytes])
                        /\ UNCHANGED outputNode
                   ELSE /\ op' = "audioToOutput"
                        /\ outputNode' =
                              PostToOutput(outputNode,
                                           [msg |-> id, proc |-> ap, via |-> "pcm",
                                            bytes |-> pl.bytes,
                                            samples |-> SampleCount(pl.bytes)])
                        /\ UNCHANGED decoderQueue
    /\ UNCHANGED <<nProcs, readyState, shouldConnect, sessionReadyRef,
                   sessionInitializedRef, sentInitialUCORef, audioProcessorRef,
                   setupPending, released, rawChatHistory, errors, handed,
                   pollTimers, ucoReady, conn, connReady, initRuns, nFrames,
                   nMsgs, nPress>>
    /\ UNCHANGED <<nDeps, variant, portQueue, decodedQueue, discarded>>
    /\ UNCHANGED provVars
    /\ UNCHANGED engVars
    /\ UNCHANGED fnVars
    /\ UNCHANGED hookVars
    /\ UNCHANGED auxVars

\* the decoder workers that have a chunk to decode
DecodersBusy == {decoderQueue[k].proc : k \in 1..Len(decoderQueue)}

\* the decoder workers that have posted a frame
DecodersPosted == {decodedQueue[k].proc : k \in 1..Len(decodedQueue)}

\* the chunk the worker of processor p decodes next: the oldest one (the
\* worker handles its messages one at a time, in arrival order)
WorkerHead(q, p) == PortHead(q, p)

\* part_002:99, the decoder worker handles the oldest decode command and
\* posts the decoded frame, or posts nothing for a page that holds no audio
DecoderWorks ==
    /\ \E p \in DecodersBusy, audible \in BOOLEAN :
         LET k == WorkerHead(decoderQueue, p)
         IN  /\ decoderQueue' = Without(decoderQueue, k)
             /\ decodedQueue' = IF audible THEN Append(decodedQueue, decoderQueue[k])
                                ELSE decodedQueue
             /\ op' = IF audible THEN "decoded" ELSE "decodedNothing"
    /\ UNCHANGED <<nProcs, readyState, shouldConnect, sessionReadyRef,
                   sessionInitializedRef, sentInitialUCORef, audioProcessorRef,
                   setupPending, released, rawChatHistory, errors, handed,
                   pollTimers, ucoReady, conn, connReady, initRuns, nFrames,
                   nMsgs, nPress>>
    /\ UNCHANGED <<nDeps, variant, portQueue, nMedia, debugDict, outputNode, discarded>>
    /\ UNCHANGED provVars
    /\ UNCHANGED engVars
    /\ UNCHANGED fnVars
    /\ UNCHANGED hookVars
    /\ UNCHANGED auxVars

\* part_002:102-112, decoder.onmessage: the oldest frame a worker has posted
\* is forwarded to the output worklet of the same processor
DecoderMessage ==
    /\ \E p \in DecodersPosted :
         LET k == PortHead(decodedQueue, p)
             e == decodedQueue[k]
         IN  /\ decodedQueue' = Without(decodedQueue, k)
             /\ outputNode' = PostToOutput(outputNode,
                                           [msg |-> e.msg, proc |-> e.proc,
                                            via |-> "decoder", bytes |-> e.bytes,
                                            samples |-> 0])
    /\ op' = "decoderMessage"
    /\ UNCHANGED <<nProcs, readyState, shouldConnect, sessionReadyRef,
                   sessionInitializedRef, sentInitialUCORef, audioProcessorRef,
                   setupPending, released, rawChatHistory, errors, handed,
                   pollTimers, ucoReady, conn, connReady, initRuns, nFrames,
                   nMsgs, nPress>>
    /\ UNCHANGED <<nDeps, variant, portQueue, nMedia, debugDict, decoderQueue, discarded>>
    /\ UNCHANGED provVars
    /\ UNCHANGED engVars
    /\ UNCHANGED fnVars
    /\ UNCHANGED hookVars
    /\ UNCHANGED auxVars

\* The voice session with its inbound audio path, in the component
\* Unmute.tsx with a context object that is ready
MediaInit ==
    /\ VoiceInitState
    /\ ucoReady = TRUE
    /\ variant = "Unmute.tsx"
    /\ ProvInitState
    /\ EngInitState
    /\ eRate = PCM_SAMPLE_RATE
    /\ eImpl = "worklet"
    /\ FnInitState
    /\ HookInitState
    /\ AuxInitState
    /\ wsUses = {}
    /\ op = "init"

MediaNext ==
    \/ BeginConnect
    \/ FinishSetup
    \/ Disconnect
    \/ SocketConnecting
    \/ SocketOpen
    \/ SocketClosing
    \/ SocketClosed
    \/ ReceiveMessage
    \/ ReceiveMedia
    \/ DecoderWorks
    \/ DecoderMessage

MediaSpec == MediaInit /\ [][MediaNext]_vars

Next ==
    \/ BeginConnect
    \/ FinishSetup
    \/ Disconnect
    \/ SocketConnecting
    \/ SocketOpen
    \/ SocketClosing
    \/ SocketClosed
    \/ CaptureFrame
    \/ PortMessage
    \/ ReceiveMessage
    \/ PollTimerFires
    \/ UCOBecomesReady
    \/ DependencyChange

Spec == Init /\ [][Next]_vars

-----------------------------------------------------------------------------
(* Voice session: properties *)

\* C1 (gate invariant): every audio frame handed to the socket send path was
\* handed while the socket it is sent on had already delivered its readiness
\* message; frames captured before that are dropped.  The code gates on
\* sessionReadyRef, which a close never clears, so this is violated after a
\* reconnect.
C1_GateInvariant ==
    \A i \in 1..Len(handed) :
        handed[i].type = "input_audio" => handed[i].connReady

\* C2: the on-open initialization runs exactly once per connection: while a
\* socket is OPEN it has run once for that socket, and no re-render or
\* dependency change makes it run again.  part_009 runs it again on every
\* change of the context object while the socket stays open.
C2_InitOncePerConnection ==
    readyState = "OPEN" => initRuns = 1

\* The guarded component (Unmute.tsx) alone: its initialization runs exactly
\* once per connection and its guard is cleared only by a step that takes the
\* socket to CLOSING or CLOSED.
GuardedInitOnce ==
    /\ [](variant = "Unmute.tsx" => initRuns <= 1)
    /\ [](variant = "Unmute.tsx" /\ readyState = "OPEN"
            => initRuns = 1 /\ sessionInitializedRef)
    /\ [][(sessionInitializedRef /\ ~sessionInitializedRef')
            => readyState' \in {"CLOSING", "CLOSED"}]_vars

\* C3: every step that takes readyState to CLOSING or CLOSED leaves the
\* connect-request flag false and the audio processor reference null, the
\* processor registered before the step being released.
C3_TeardownOnClose ==
    [][(readyState' \in {"CLOSING", "CLOSED"} /\ readyState' # readyState)
        => /\ shouldConnect' = FALSE
           /\ audioProcessorRef' = 0
           /\ (audioProcessorRef # 0 => audioProcessorRef \in released')]_vars

\* C3 witness: the close event of an open socket tore down the processor
\* registered by the only button press.
C3_Witness ==
    /\ op = "closed" /\ nPress = 1 /\ conn = 1 /\ initRuns = 1
    /\ released = {1} /\ audioProcessorRef = 0 /\ ~shouldConnect

\* the frames of capture node p among the audio messages of h, in order
SentFrames(h, p) ==
    SelectSeq(h, LAMBDA m : m.type = "input_audio" /\ m.proc = p)

\* the frames of capture node p waiting in q, in order
WaitingFrames(q, p) == SelectSeq(q, LAMBDA e : e.proc = p)

\* the sequence of records fs has strictly increasing frame numbers
FramesAscend(fs) == \A i, j \in 1..Len(fs) : i < j => fs[i].frame < fs[j].frame

\* C15 (frame ordering): the frame callback is invoked exactly once per
\* completed frame, in capture order, and while the session is ready each
\* invocation sends one audio message, so that frames A, B, C give exactly
\* the audio messages A, B, C in that order.  Per capture node: the frames
\* sent are in capture order without repetition and were captured before
\* those still waiting; a callback step takes the oldest waiting frame and
\* appends exactly its message when the session is ready, nothing otherwise;
\* a waiting frame disappears without a callback only when the port is
\* closed by a teardown.
C15_FrameOrdering ==
    /\ [](\A p \in 1..nProcs :
            LET sent == SentFrames(handed, p)
                waiting == WaitingFrames(portQueue, p)
            IN  /\ FramesAscend(sent)
                /\ FramesAscend(waiting)
                /\ (sent # <<>> /\ waiting # <<>>)
                      => sent[Len(sent)].frame < waiting[1].frame)
    /\ [][op' \in {"frameSent", "frameDropped"} =>
            \E p \in 1..nProcs :
                LET waiting == WaitingFrames(portQueue, p)
                IN  /\ waiting # <<>>
                    /\ WaitingFrames(portQueue', p) = Tail(waiting)
                    /\ Len(portQueue') = Len(portQueue) - 1
                    /\ IF sessionReadyRef
                       THEN /\ Len(handed') = Len(handed) + 1
                            /\ SubSeq(handed', 1, Len(handed)) = handed
                            /\ handed'[Len(handed')].type = "input_audio"
                            /\ handed'[Len(handed')].frame = waiting[1].frame
                            /\ handed'[Len(handed')].proc = p
                       ELSE handed' = handed]_vars
    /\ [][Len(portQueue') < Len(portQueue) =>
            op' \in {"frameSent", "frameDropped", "disconnect", "closing", "closed"}]_vars
    /\ [][(\E p \in 1..nProcs : SentFrames(handed', p) # SentFrames(handed, p))
            => op' = "frameSent"]_vars

\* C15 witness: the session is ready and the two frames captured by the only
\* processor were sent as two audio messages in capture order, nothing is
\* waiting any more
C15_Witness ==
    /\ sessionReadyRef /\ connReady /\ readyState = "OPEN" /\ nProcs = 1
    /\ op = "frameSent" /\ nFrames = 2 /\ portQueue = <<>>
    /\ Len(SentFrames(handed, 1)) = 2
    /\ SentFrames(handed, 1)[1].frame = 1 /\ SentFrames(handed, 1)[2].frame = 2

\* C25 (the context poll terminates): a run of sendInitialUCOWhenReady
\* started by a timer while the socket is closing or closed, that is after
\* the session was torn down, does not schedule itself again.  The function
\* tests only whether the context was sent already (Unmute.tsx:386): it
\* holds no attempt counter and does not look at the socket, so while the
\* formatter reports not_ready every run sets the next timer (:397).
C25_PollLoopTerminates ==
    [][(pollTimers > 0 /\ IsClosingOrClosed(readyState) /\ readyState' = readyState)
         => op' # "pollRetry"]_vars

\* C26 (readiness persists for the life of the connection): once the
\* readiness message of the current connection has been dispatched and the
\* session is ready, the session stays ready for as long as the socket stays
\* open: no step that leaves the socket open clears the readiness flag.  In
\* part_009 the on-open effect has no per-connection guard and runs again
\* when its dependencies change (part_009:336-345, :417), clearing the flag.
C26_ReadinessPersists ==
    [][(/\ readyState = "OPEN" /\ readyState' = "OPEN"
        /\ connReady /\ sessionReadyRef)
         => sessionReadyRef']_vars

\* C27 (the readiness flag is scoped to one connection): whenever the voice
\* socket is not open (not yet created, connecting, closing or closed) the
\* readiness flag is false.  The flag is set by the readiness message
\* (Unmute.tsx:292) and cleared only by the on-open effect of the next
\* connection (:379); neither close effect (:277-282, :427-431) clears it.
C27_ReadinessScoped ==
    readyState # "OPEN" => ~sessionReadyRef

\* the initial-context messages handed to sendMessage for connection c
InitialContextOf(c) ==
    SelectSeq(handed, LAMBDA m : m.type = "input_text" /\ m.conn = c)

\* C31 (initial context per connection), for the component that sends the
\* context (Unmute.tsx): every initial-context message is handed over while
\* the socket is open; no connection gets more than one; and when the
\* socket is open, the context ready and no retry pending, the current
\* connection has got its one.  sentInitialUCORef (Unmute.tsx:189) is set at
\* :409 and never cleared, and the retry timer outlives the connection that
\* set it.
C31_InitialContextPerConnection ==
    /\ [][(/\ variant = "Unmute.tsx"
           /\ Len(handed') = Len(handed) + 1
           /\ handed'[Len(handed')].type = "input_text")
            => readyState' = "OPEN"]_vars
    /\ [](variant = "Unmute.tsx" =>
            /\ \A c \in 1..conn : Len(InitialContextOf(c)) <= 1
            /\ (readyState = "OPEN" /\ ucoReady /\ pollTimers = 0)
                   => Len(InitialContextOf(conn)) = 1)

-----------------------------------------------------------------------------
(* Voice session: properties of the inbound path *)

\* the payload begins with the bytes 4F 67 67 53
OggMagic(bytes) == Len(bytes) >= 4 /\ SubSeq(bytes, 1, 4) = <<79, 103, 103, 83>>

\* the entries of q that came through the path via
Via(q, via) == SelectSeq(q, LAMBDA e : e.via = via)

\* the inbound messages that have an entry in q
MsgsOf(q) == {q[k].msg : k \in 1..Len(q)}

\* the sequence of records q has strictly increasing message numbers
MsgsAscend(q) == \A i, j \in 1..Len(q) : i < j => q[i].msg < q[j].msg

\* C16 (magic-byte routing): an output_audio payload that begins with
\* 4F 67 67 53 is handed to the decoder worker, any other payload, one
\* shorter than four bytes included, to the raw-PCM path, which posts it to
\* the output worklet at once; never to both.  (A message without payload,
\* or one that finds no audio processor, is handed to neither.)
C16_MagicByteRouting ==
    /\ [](/\ \A k \in 1..Len(decoderQueue) : OggMagic(decoderQueue[k].bytes)
          /\ \A k \in 1..Len(decodedQueue) : OggMagic(decodedQueue[k].bytes)
          /\ \A k \in 1..Len(outputNode) :
               (outputNode[k].via = "decoder") <=> OggMagic(outputNode[k].bytes)
          /\ MsgsOf(Via(outputNode, "pcm"))
               \cap (MsgsOf(decoderQueue) \cup MsgsOf(decodedQueue)
                       \cup MsgsOf(Via(outputNode, "decoder"))) = {})
    /\ [][nMedia' = nMedia + 1 /\ op' # "unmute.additional_outputs" =>
            LET toDecoder == Len(decoderQueue') - Len(decoderQueue)
                toOutput == Len(outputNode') - Len(outputNode)
            IN  /\ toDecoder \in {0, 1} /\ toOutput \in {0, 1}
                /\ toDecoder + toOutput <= 1
                /\ toDecoder = 1 =>
                     /\ OggMagic(decoderQueue'[Len(decoderQueue')].bytes)
                     /\ decoderQueue'[Len(decoderQueue')].proc = audioProcessorRef
                /\ toOutput = 1 =>
                     /\ ~OggMagic(outputNode'[Len(outputNode')].bytes)
                     /\ outputNode'[Len(outputNode')].via = "pcm"
                     /\ outputNode'[Len(outputNode')].proc = audioProcessorRef
                /\ toDecoder + toOutput = 0 =>
                     (audioProcessorRef = 0 \/ op' = "audioNoPayload")]_vars

\* C16 witness: of two audio messages the one with an Ogg page went to the
\* decoder and the one with three bytes, the beginning of the magic, to the
\* output worklet
C16_Witness ==
    /\ Len(decoderQueue) = 1 /\ decoderQueue[1].bytes = <<79, 103, 103, 83, 0, 2>>
    /\ Len(outputNode) = 1 /\ outputNode[1].bytes = <<79, 103, 103>>
    /\ outputNode[1].via = "pcm" /\ outputNode[1].msg > decoderQueue[1].msg

\* C17 (playback ordering): decoded frames are forwarded to the output
\* worklet in the order they are decoded, and the chunks handed to a decoder
\* reach the output worklet in the order they were handed over.  Per
\* processor: the frames forwarded, the frames decoded and the chunks waiting
\* are each in submission order and follow one another; a forwarding step
\* takes the oldest decoded frame and puts it behind the frames already
\* posted.
C17_PlaybackOrdering ==
    /\ [](\A p \in 1..nProcs :
            LET played == WaitingFrames(Via(outputNode, "decoder"), p)
                decoded == WaitingFrames(decodedQueue, p)
                waiting == WaitingFrames(decoderQueue, p)
            IN  MsgsAscend(played \o decoded \o waiting))
    /\ [][op' = "decoderMessage" =>
            \E p \in 1..nProcs :
                LET decoded == WaitingFrames(decodedQueue, p)
                IN  /\ decoded # <<>>
                    /\ WaitingFrames(decodedQueue', p) = Tail(decoded)
                    /\ Len(outputNode') = Len(outputNode) + 1
                    /\ SubSeq(outputNode', 1, Len(outputNode)) = outputNode
                    /\ outputNode'[Len(outputNode')].msg = decoded[1].msg
                    /\ outputNode'[Len(outputNode')].proc = p]_vars

\* C17 witness: two chunks were handed to the decoder of one processor and
\* both decoded frames have reached the output worklet, in that order
C17_Witness ==
    /\ op = "decoderMessage" /\ Len(outputNode) = 2
    /\ outputNode[1].via = "decoder" /\ outputNode[2].via = "decoder"
    /\ outputNode[1].proc = outputNode[2].proc
    /\ outputNode[1].msg < outputNode[2].msg

\* the chat history has strictly increasing message numbers
ChatAscends(h) == \A i, j \in 1..Len(h) : i < j => h[i].content < h[j].content

\* C18 (dispatch order): inbound messages are dispatched in delivery order:
\* the effects of a message (chat item, error item, audio forwarded, debug
\* info) are applied in the step that delivers it, before the next message,
\* so chat items and forwarded audio are in delivery order.
C18_DispatchOrder ==
    /\ [](/\ ChatAscends(rawChatHistory)
          /\ MsgsAscend(decoderQueue)
          /\ MsgsAscend(Via(outputNode, "pcm")))
    /\ [][LET id == nMsgs' + nMedia'
              delivered == (nMsgs' + nMedia' = nMsgs + nMedia + 1)
          IN  /\ (rawChatHistory' # rawChatHistory /\ rawChatHistory' # <<>>)
                   => /\ delivered
                      /\ rawChatHistory'[Len(rawChatHistory')].content = id
                      /\ \A k \in 1..(Len(rawChatHistory') - 1) :
                            rawChatHistory'[k] = rawChatHistory[k]
              /\ Len(decoderQueue') > Len(decoderQueue)
                   => delivered /\ decoderQueue'[Len(decoderQueue')].msg = id
              /\ Len(Via(outputNode', "pcm")) > Len(Via(outputNode, "pcm"))
                   => delivered /\ outputNode'[Len(outputNode')].msg = id
              /\ errors' # errors => delivered /\ errors' = errors + 1
              /\ debugDict' # debugDict => delivered /\ debugDict' = id]_vars

\* C18 witness: the second message delivered added its chat item behind the
\* item of the first
C18_Witness ==
    /\ Len(rawChatHistory) = 2 /\ nMsgs = 2 /\ nMedia = 0
    /\ rawChatHistory[1] = ChatItem("user", 1)
    /\ rawChatHistory[2] = ChatItem("assistant", 2)

\* C19 (unknown message types): a message of a type the dispatch does not
\* know is ignored: readiness, chat history, error list, debug info and the
\* audio output path are unchanged, the connection and everything else the
\* dispatch of later messages depends on as well.
C19_UnknownTypeIgnored ==
    [][op' = "unknown" =>
         /\ nMsgs' = nMsgs + 1
         /\ UNCHANGED <<sessionReadyRef, connReady, rawChatHistory, errors,
                        debugDict, decoderQueue, decodedQueue, outputNode>>
         /\ UNCHANGED <<readyState, shouldConnect, audioProcessorRef, handed,
                        sessionInitializedRef, sentInitialUCORef, nMedia>>]_vars

\* C19 witness: an unknown message arrived when the session was ready and
\* debug info and audio output were not empty
C19_Witness ==
    /\ op = "unknown" /\ readyState = "OPEN" /\ sessionReadyRef
    /\ debugDict # 0 /\ outputNode # <<>> /\ nMsgs = 2

\* C20 (error taxonomy): a warning leaves the error list unchanged, every
\* other error message appends exactly one item; neither closes the
\* connection nor changes readiness.
C20_ErrorTaxonomy ==
    [][/\ op' = "error_warning" => errors' = errors
       /\ op' = "error_other" => errors' = errors + 1
       /\ op' \in {"error_warning", "error_other"} =>
            /\ nMsgs' = nMsgs + 1
            /\ UNCHANGED <<readyState, shouldConnect, sessionReadyRef, connReady,
                           audioProcessorRef>>]_vars

\* C20 witness: on a ready session an error that is not a warning added the
\* only item of the error list; the socket is open and the session ready
C20_Witness ==
    /\ op = "error_other" /\ errors = 1 /\ nMsgs = 2
    /\ readyState = "OPEN" /\ sessionReadyRef /\ connReady /\ shouldConnect

\* the entries of q that belong to a processor shutdownAudio has released
OfReleased(q) == SelectSeq(q, LAMBDA e : e.proc \in released)

-----------------------------------------------------------------------------
(* Communication provider (part_008): bounds and constants *)

MaxSocks == 12     \* WebSocket objects constructed
MaxRefresh == 1    \* refreshAuth calls
MaxMounts == 1     \* runs of the mount effect
MaxLive == 2       \* sockets whose close event is still to come
MaxTimers == 2     \* pending reconnect timers

\* Unmute.tsx:163, the largest retry maximum configured anywhere in the
\* repository; the provider's own reconnect path configures none
reconnectAttempts == 10

\* part_008:350, the close code that suppresses the reconnect
NormalClosure == 1000

-----------------------------------------------------------------------------
(* Communication provider: the browser's WebSocket objects *)

\* part_008:329, new WebSocket(wsUrl, 'realtime')
NewSock == [rs |-> "CONNECTING", byClient |-> FALSE, wasOpen |-> FALSE, code |-> 0]

\* WebSocket.close() without arguments, as called at part_008:408 and :521:
\* starts the closing handshake of a socket that is connecting or open and
\* does nothing otherwise
CloseSock(sk, s) ==
    IF sk[s].rs \in {"CONNECTING", "OPEN"}
    THEN [sk EXCEPT ![s].rs = "CLOSING", ![s].byClient = TRUE]
    ELSE sk

\* The close code the close event of a socket closed by close() carries: no
\* status code was sent, so the event reports 1005 unless the peer answers
\* with a code of its own; a socket closed before it opened fails with 1006.
ClientCloseCodes(sock) ==
    IF sock.wasOpen THEN {1005, NormalClosure} ELSE {1006}

\* Close codes of closes the peer starts
PeerCloseCodes == {NormalClosure, 1001}

-----------------------------------------------------------------------------
(* Communication provider: connect() *)

\* a connect() that never takes the early return
ConnectNeverNoop(sk, ref) == FALSE

\* part_008:311, wsRef.current?.readyState === WebSocket.OPEN
ConnectNoop(sk, ref) == ref # 0 /\ sk[ref].rs = "OPEN"

\* part_008:310-378, connect() run on socket table sk and reference ref: the
\* early return, or a new socket stored in wsRef with its handlers attached.
\* The socket table, the counter and the reference it leaves:
ConnectSocks(sk, ref) ==
    IF ConnectNoop(sk, ref) THEN sk ELSE (nSocks + 1 :> NewSock) @@ sk
ConnectCount(sk, ref) ==
    IF ConnectNoop(sk, ref) THEN nSocks ELSE nSocks + 1
ConnectRef(sk, ref) ==
    IF ConnectNoop(sk, ref) THEN ref ELSE nSocks + 1

\* the bounds on constructed and on live sockets, as a guard of every caller of connect()
ConnectAllowed(sk, ref) ==
    \/ ConnectNoop(sk, ref)
    \/ nSocks < MaxSocks /\ Cardinality(DOMAIN sk) < MaxLive

\* a socket constructed while the provider is unmounted
LeakedSock(sk, ref, m) ==
    sockAfterUnmount \/ (~ConnectNoop(sk, ref) /\ m = "gone")

-----------------------------------------------------------------------------
(* Communication provider: actions *)

\* part_008:414-514, the mount effect: the bootstrap fetch is started when
\* the URL carries a session (425-429), stored authentication is reflected
\* when present (462-480), the safety-valve timer is armed unless the ref
\* already holds one (507-512), connect() is called (513)
ProvMount ==
    /\ mounted \in {"no", "gone"}
    /\ nMounts < MaxMounts
    /\ task = NoTask
    /\ ConnectAllowed(socks, wsRef)
    /\ nMounts' = nMounts + 1
    /\ mounted' = "yes"
    /\ \E stored \in BOOLEAN :
         /\ loading' = IF stored THEN FALSE ELSE loading
         /\ authenticated' = IF stored THEN TRUE ELSE authenticated
         /\ error' = IF stored THEN "null" ELSE error
    /\ authTimerPending' = IF ~authCheckTimeoutRef THEN TRUE ELSE authTimerPending
    /\ authCheckTimeoutRef' = TRUE
    /\ socks' = ConnectSocks(socks, wsRef)
    /\ nSocks' = ConnectCount(socks, wsRef)
    /\ wsRef' = ConnectRef(socks, wsRef)
    /\ \E session \in BOOLEAN :
         bootstrapPending' = IF session THEN TRUE ELSE bootstrapPending
    /\ op' = "mount"
    /\ UNCHANGED <<connected, reconnectTimers, task, retries, intentReconnect,
                   sockAfterUnmount, nRefresh>>
    /\ UNCHANGED authStateRef
    /\ UNCHANGED authRest
    /\ UNCHANGED voiceVars
    /\ UNCHANGED engVars
    /\ UNCHANGED fnVars
    /\ UNCHANGED hookVars

\* part_008:516-528, the cleanup of the mount effect: the safety-valve timer
\* is cancelled (the ref keeps its id), the referenced socket is closed
ProvUnmount ==
    /\ mounted = "yes"
    /\ task = NoTask
    /\ mounted' = "gone"
    /\ authTimerPending' = IF authCheckTimeoutRef THEN FALSE ELSE authTimerPending
    /\ socks' = IF wsRef # 0 THEN CloseSock(socks, wsRef) ELSE socks
    /\ op' = "unmount"
    /\ UNCHANGED <<nSocks, wsRef, loading, connected, authenticated, error,
                   reconnectTimers, authCheckTimeoutRef, task, retries,
                   intentReconnect, sockAfterUnmount, nRefresh, nMounts>>
    /\ UNCHANGED voiceVars
    /\ UNCHANGED engVars
    /\ UNCHANGED fnVars
    /\ UNCHANGED hookVars
    /\ UNCHANGED auxVars

\* part_008:403-411, refreshAuth: state reset, close() of the referenced
\* socket, connect()
RefreshAuth ==
    /\ mounted = "yes"
    /\ nRefresh < MaxRefresh
    /\ task = NoTask
    /\ LET sk == IF wsRef # 0 THEN CloseSock(socks, wsRef) ELSE socks
       IN  /\ ConnectAllowed(sk, wsRef)
           /\ socks' = ConnectSocks(sk, wsRef)
           /\ nSocks' = ConnectCount(sk, wsRef)
           /\ wsRef' = ConnectRef(sk, wsRef)
    /\ nRefresh' = nRefresh + 1
    /\ loading' = TRUE
    /\ authenticated' = FALSE
    /\ op' = "refreshAuth"
    /\ UNCHANGED <<connected, error, reconnectTimers, authCheckTimeoutRef,
                   authTimerPending, mounted, task, retries, intentReconnect,
                   sockAfterUnmount, nMounts>>
    /\ UNCHANGED voiceVars
    /\ UNCHANGED engVars
    /\ UNCHANGED fnVars
    /\ UNCHANGED hookVars
    /\ UNCHANGED auxVars

\* part_008:351-354, a reconnect timer fires and calls connect()
ReconnectTimerFires ==
    /\ reconnectTimers > 0
    /\ task = NoTask
    /\ ConnectAllowed(socks, wsRef)
    /\ reconnectTimers' = reconnectTimers - 1
    /\ socks' = ConnectSocks(socks, wsRef)
    /\ nSocks' = ConnectCount(socks, wsRef)
    /\ wsRef' = ConnectRef(socks, wsRef)
    /\ retries' = IF ConnectNoop(socks, wsRef) THEN retries ELSE retries + 1
    /\ sockAfterUnmount' = LeakedSock(socks, wsRef, mounted)
    /\ op' = IF ConnectNoop(socks, wsRef) THEN "connectNoop" ELSE "reconnect"
    /\ UNCHANGED <<loading, connected, authenticated, error, authCheckTimeoutRef,
                   authTimerPending, mounted, task, intentReconnect, nRefresh,
                   nMounts>>
    /\ UNCHANGED voiceVars
    /\ UNCHANGED engVars
    /\ UNCHANGED fnVars
    /\ UNCHANGED hookVars
    /\ UNCHANGED auxVars

\* part_008:508-511, the safety-valve timer fires
AuthTimeoutFires ==
    /\ authTimerPending
    /\ task = NoTask
    /\ loading' = FALSE
    /\ authCheckTimeoutRef' = FALSE
    /\ authTimerPending' = FALSE
    /\ op' = "authTimeout"
    /\ UNCHANGED <<socks, nSocks, wsRef, connected, authenticated, error,
                   reconnectTimers, mounted, task, retries, intentReconnect,
                   sockAfterUnmount, nRefresh, nMounts>>
    /\ UNCHANGED voiceVars
    /\ UNCHANGED engVars
    /\ UNCHANGED fnVars
    /\ UNCHANGED hookVars
    /\ UNCHANGED auxVars

\* part_008:332-336, the open event of a connecting socket and ws.onopen
\* (the auth.resolve request it sends leaves the provider's state alone)
SockOpens ==
    /\ task = NoTask
    /\ \E s \in DOMAIN socks :
         /\ socks[s].rs = "CONNECTING"
         /\ socks' = [socks EXCEPT ![s].rs = "OPEN", ![s].wasOpen = TRUE]
    /\ connected' = TRUE
    /\ loading' = FALSE
    /\ retries' = 0
    /\ op' = "onopen"
    /\ UNCHANGED <<nSocks, wsRef, authenticated, error, reconnectTimers,
                   authCheckTimeoutRef, authTimerPending, mounted, task,
                   intentReconnect, sockAfterUnmount, nRefresh, nMounts>>
    /\ UNCHANGED voiceVars
    /\ UNCHANGED engVars
    /\ UNCHANGED fnVars
    /\ UNCHANGED hookVars
    /\ UNCHANGED auxVars

\* the connection of a socket fails: the browser sets it CLOSED with code
\* 1006 and dispatches an error event followed by a close event
SockFails ==
    /\ task = NoTask
    /\ \E s \in DOMAIN socks :
         /\ reconnectTimers < MaxTimers
         /\ socks[s].rs \in {"CONNECTING", "OPEN"}
         /\ socks' = [socks EXCEPT ![s].rs = "CLOSED", ![s].code = 1006]
         /\ task' = [sock |-> s, errorDue |-> TRUE]
    /\ op' = "fail"
    /\ UNCHANGED <<nSocks, wsRef, loading, connected, authenticated, error,
                   reconnectTimers, authCheckTimeoutRef, authTimerPending,
                   mounted, retries, intentReconnect, sockAfterUnmount,
                   nRefresh, nMounts>>
    /\ UNCHANGED voiceVars
    /\ UNCHANGED engVars
    /\ UNCHANGED fnVars
    /\ UNCHANGED hookVars
    /\ UNCHANGED auxVars

\* the peer closes an open socket: the browser sets it CLOSED and dispatches
\* a close event with the peer's code
SockPeerCloses ==
    /\ task = NoTask
    /\ \E s \in DOMAIN socks, c \in PeerCloseCodes :
         /\ reconnectTimers < MaxTimers
         /\ socks[s].rs = "OPEN"
         /\ socks' = [socks EXCEPT ![s].rs = "CLOSED", ![s].code = c]
         /\ task' = [sock |-> s, errorDue |-> FALSE]
    /\ op' = "peerClose"
    /\ UNCHANGED <<nSocks, wsRef, loading, connected, authenticated, error,
                   reconnectTimers, authCheckTimeoutRef, authTimerPending,
                   mounted, retries, intentReconnect, sockAfterUnmount,
                   nRefresh, nMounts>>
    /\ UNCHANGED voiceVars
    /\ UNCHANGED engVars
    /\ UNCHANGED fnVars
    /\ UNCHANGED hookVars
    /\ UNCHANGED auxVars

\* the closing handshake started by close() ends: the browser sets the
\* socket CLOSED and dispatches a close event, after an error event when the
\* socket never opened
SockClosingEnds ==
    /\ task = NoTask
    /\ \E s \in DOMAIN socks :
         /\ reconnectTimers < MaxTimers
         /\ socks[s].rs = "CLOSING"
         /\ \E c \in ClientCloseCodes(socks[s]) :
              socks' = [socks EXCEPT ![s].rs = "CLOSED", ![s].code = c]
         /\ task' = [sock |-> s, errorDue |-> ~socks[s].wasOpen]
    /\ op' = "closingEnds"
    /\ UNCHANGED <<nSocks, wsRef, loading, connected, authenticated, error,
                   reconnectTimers, authCheckTimeoutRef, authTimerPending,
                   mounted, retries, intentReconnect, sockAfterUnmount,
                   nRefresh, nMounts>>
    /\ UNCHANGED voiceVars
    /\ UNCHANGED engVars
    /\ UNCHANGED fnVars
    /\ UNCHANGED hookVars
    /\ UNCHANGED auxVars

\* an onerror that drops the socket reference
OnErrorRefDropped(ref) == 0

\* part_008:359-367, what ws.onerror leaves in wsRef: it does not touch it
OnErrorRef(ref) == ref

\* part_008:359-367, ws.onerror
OnError ==
    /\ task.sock # 0
    /\ task.errorDue
    /\ task' = [task EXCEPT !.errorDue = FALSE]
    /\ loading' = FALSE
    /\ connected' = FALSE
    /\ error' = "WebSocket connection failed"
    /\ wsRef' = OnErrorRef(wsRef)
    /\ op' = "onerror"
    /\ UNCHANGED <<socks, nSocks, authenticated, reconnectTimers,
                   authCheckTimeoutRef, authTimerPending, mounted, retries,
                   intentReconnect, sockAfterUnmount, nRefresh, nMounts>>
    /\ UNCHANGED voiceVars
    /\ UNCHANGED engVars
    /\ UNCHANGED fnVars
    /\ UNCHANGED hookVars
    /\ UNCHANGED auxVars

\* part_008:350, whether ws.onclose schedules a reconnect for close code c
SchedulesReconnect(c) == c # NormalClosure

\* part_008:340-357, ws.onclose of the socket whose close event is dispatched
OnClose ==
    /\ task.sock # 0
    /\ ~task.errorDue
    /\ LET s == task.sock
           c == socks[s].code
       IN  /\ socks' = [i \in DOMAIN socks \ {s} |-> socks[i]]
           /\ reconnectTimers' =
                 IF SchedulesReconnect(c) THEN reconnectTimers + 1 ELSE reconnectTimers
           /\ intentReconnect' =
                 \/ intentReconnect
                 \/ SchedulesReconnect(c) /\ (socks[s].byClient \/ c = NormalClosure)
    /\ task' = NoTask
    /\ connected' = FALSE
    /\ error' = "Connection closed"
    /\ wsRef' = 0
    /\ op' = "onclose"
    /\ UNCHANGED <<nSocks, loading, authenticated, authCheckTimeoutRef,
                   authTimerPending, mounted, retries, sockAfterUnmount,
                   nRefresh, nMounts>>
    /\ UNCHANGED voiceVars
    /\ UNCHANGED engVars
    /\ UNCHANGED fnVars
    /\ UNCHANGED hookVars
    /\ UNCHANGED auxVars

\* part_008:82-286, the message types handleMessage tells apart, with the
\* branch their payload selects: "+" a valid named user, "-" the negative
\* branch, "?" a userState with neither a name nor authenticated === false
MessageKinds ==
    {"established+", "established-", "userState+", "userState-", "userState?",
     "logout_success", "user_logged_out", "logout_error",
     "response+", "response-", "other"}

\* the kinds whose branch stores a user and sets authenticated
PositiveKinds == {"established+", "userState+", "response+"}

\* the kinds that set authStateRef.current = true (part_008:113, :157); the
\* positive branch of auth.response (252-263) does not
RefSettingKinds == {"established+", "userState+"}

\* the kinds that set authStateRef.current = false (part_008:191, :208)
RefClearingKinds == {"logout_success", "user_logged_out"}

\* the kinds that clear the user whatever the state (part_008:166, 184-190,
\* 201-207, 220-226)
NegativeKinds == {"userState-", "logout_success", "user_logged_out", "logout_error"}

\* part_008:72-290, ws.onmessage = handleMessage: a message event of an open
\* socket
HandleMessage ==
    /\ task = NoTask
    /\ \E s \in DOMAIN socks : socks[s].rs = "OPEN"
    /\ \E kind \in MessageKinds :
         /\ op' = kind
         /\ authenticated' =
                IF kind \in PositiveKinds THEN TRUE
                ELSE IF kind \in NegativeKinds THEN FALSE
                ELSE IF kind = "response-" THEN (authStateRef /\ authenticated)
                ELSE authenticated
         /\ authStateRef' =
                IF kind \in RefSettingKinds THEN TRUE
                ELSE IF kind \in RefClearingKinds THEN FALSE
                ELSE authStateRef
         /\ loading' = IF kind \in {"userState?", "other"} THEN loading ELSE FALSE
         /\ error' = IF kind \in {"userState?", "other", "established-"}
                     THEN error ELSE "null"
         /\ connected' = IF kind \in {"established+", "established-"}
                         THEN TRUE ELSE connected
         /\ authCheckTimeoutRef' =
                IF kind \in PositiveKinds THEN FALSE ELSE authCheckTimeoutRef
         /\ authTimerPending' =
                IF kind \in PositiveKinds /\ authCheckTimeoutRef
                THEN FALSE ELSE authTimerPending
    /\ UNCHANGED <<socks, nSocks, wsRef, reconnectTimers, mounted, task,
                   retries, intentReconnect, sockAfterUnmount, nRefresh,
                   nMounts>>
    /\ UNCHANGED bootstrapPending
    /\ UNCHANGED authRest
    /\ UNCHANGED voiceVars
    /\ UNCHANGED engVars
    /\ UNCHANGED fnVars
    /\ UNCHANGED hookVars

\* part_008:427-460, the bootstrap fetch settles: a response that is ok and
\* names a user authenticates (434-446), anything else is logged
BootstrapResolves ==
    /\ bootstrapPending
    /\ bootstrapPending' = FALSE
    /\ \E ok \in BOOLEAN :
         /\ authenticated' = IF ok THEN TRUE ELSE authenticated
         /\ loading' = IF ok THEN FALSE ELSE loading
         /\ error' = IF ok THEN "null" ELSE error
    /\ op' = "bootstrap"
    /\ UNCHANGED <<socks, nSocks, wsRef, connected, reconnectTimers,
                   authCheckTimeoutRef, authTimerPending, mounted, task,
                   retries, intentReconnect, sockAfterUnmount, nRefresh,
                   nMounts>>
    /\ UNCHANGED authStateRef
    /\ UNCHANGED authRest
    /\ UNCHANGED voiceVars
    /\ UNCHANGED engVars
    /\ UNCHANGED fnVars
    /\ UNCHANGED hookVars

\* part_008:485-503, the storage listener of the mounted provider, run for
\* the key inti_auth: a stored authenticated user is adopted, any other
\* value clears the user
StorageEvent ==
    /\ mounted = "yes"
    /\ \E valid \in BOOLEAN :
         /\ authenticated' = valid
         /\ loading' = IF valid THEN FALSE ELSE loading
         /\ error' = IF valid THEN "null" ELSE error
    /\ op' = "storage"
    /\ UNCHANGED <<socks, nSocks, wsRef, connected, reconnectTimers,
                   authCheckTimeoutRef, authTimerPending, mounted, task,
                   retries, intentReconnect, sockAfterUnmount, nRefresh,
                   nMounts>>
    /\ UNCHANGED authVars
    /\ UNCHANGED authRest
    /\ UNCHANGED voiceVars
    /\ UNCHANGED engVars
    /\ UNCHANGED fnVars
    /\ UNCHANGED hookVars

ProvInit ==
    /\ VoiceInitState
    /\ ucoReady = FALSE
    /\ variant = "Unmute.tsx"
    /\ ProvInitState
    /\ EngInitState
    /\ eRate = PCM_SAMPLE_RATE
    /\ eImpl = "worklet"
    /\ FnInitState
    /\ HookInitState
    /\ AuxInitState
    /\ wsUses = {}
    /\ op = "init"

ProvNext ==
    \/ ProvMount
    \/ ProvUnmount
    \/ RefreshAuth
    \/ ReconnectTimerFires
    \/ AuthTimeoutFires
    \/ SockOpens
    \/ SockFails
    \/ SockPeerCloses
    \/ SockClosingEnds
    \/ OnError
    \/ OnClose

ProvSpec == ProvInit /\ [][ProvNext]_vars

\* The provider with its timers firing and the handlers of events already
\* raised running: a pending setTimeout callback eventually runs, and an
\* error or close event the browser has queued is eventually dispatched.
\* Whether a socket ever opens, fails or is closed by the peer is left open.
ProvFairSpec ==
    /\ ProvSpec
    /\ WF_vars(AuthTimeoutFires)
    /\ WF_vars(ReconnectTimerFires)
    /\ WF_vars(OnError)
    /\ WF_vars(OnClose)

\* The provider's authentication state: the sockets of the mount effect and
\* of refreshAuth with their events, the messages they deliver, the bootstrap
\* fetch and the storage listener.  The reconnect timer's callback is left
\* out: connect() (part_008:310-378) leaves the authentication state alone.
AuthNext ==
    \/ ProvMount
    \/ ProvUnmount
    \/ RefreshAuth
    \/ AuthTimeoutFires
    \/ SockOpens
    \/ SockFails
    \/ SockPeerCloses
    \/ SockClosingEnds
    \/ OnError
    \/ OnClose
    \/ HandleMessage
    \/ BootstrapResolves
    \/ StorageEvent

AuthSpec == ProvInit /\ [][AuthNext]_vars

\* the provider's socket reference is null or names a socket whose close
\* event is still to come
ProvTypeOK ==
    /\ wsRef = 0 \/ wsRef \in DOMAIN socks
    /\ task.sock = 0 \/ task.sock \in DOMAIN socks
    /\ DOMAIN socks \subseteq 1..nSocks

-----------------------------------------------------------------------------
(* Communication provider: properties *)

\* C4 (reconnect bound): after consecutive abnormal closes with no open in
\* between, the reconnect attempts stop at the configured maximum.  The
\* provider's ws.onclose counts nothing and schedules a reconnect after every
\* close whose code is not 1000, so the attempts exceed any maximum.
C4_ReconnectBound == retries <= reconnectAttempts

\* C5: no reconnect is scheduled by a close the provider asked for (unmount
\* cleanup, close() in refreshAuth) or a close with code 1000, and no socket
\* is constructed after the unmount cleanup.  close() is called without a
\* code, the close event then carries 1005 or 1006, and ws.onclose tests the
\* code only.
C5_NoReconnectAfterIntentionalClose == ~intentReconnect /\ ~sockAfterUnmount

C33_NoSilentDeauth ==
    [][(authenticated /\ op' = "response-") => authenticated']_vars

\* the sockets of the provider that are connecting or open
LiveSocks == {s \in DOMAIN socks : socks[s].rs \in {"CONNECTING", "OPEN"}}

\* C28 (single connection per provider): at most one WebSocket of the
\* provider is connecting or open, and the socket reference points to it.
\* connect() returns early only when the referenced socket is OPEN
\* (part_008:311), and ws.onclose sets wsRef.current = null whichever socket
\* the reference holds (:348), so the close event of a socket that
\* refreshAuth replaced drops the reference to its successor and its
\* reconnect timer opens one more.
C28_SingleConnection ==
    /\ Cardinality(LiveSocks) <= 1
    /\ LiveSocks # {} => wsRef \in LiveSocks

\* C6: a connect() call made while the referenced socket is OPEN constructs
\* no socket, leaves the socket reference and changes no state.  (The calls
\* that can find an open socket are those of the reconnect timers.)
C6_ConnectNoopWhenOpen ==
    [][(reconnectTimers' = reconnectTimers - 1 /\ wsRef # 0 /\ socks[wsRef].rs = "OPEN")
        => /\ socks' = socks /\ nSocks' = nSocks /\ wsRef' = wsRef
           /\ UNCHANGED <<loading, connected, authenticated, error>>]_vars

\* C6 witness: a reconnect timer found the referenced socket open
C6_Witness ==
    /\ op = "connectNoop" /\ wsRef # 0 /\ socks[wsRef].rs = "OPEN"
    /\ connected /\ nSocks = 2

\* C7: the error event of a socket sets the error state (connected and
\* loading false) and leaves the socket reference, the sockets and the
\* reconnect timers alone, the close event of that socket still to come; the
\* socket reference is dropped by close events only.
C7_ErrorKeepsSocket ==
    /\ [][(task.sock # 0 /\ task.errorDue /\ task' # task)
            => /\ wsRef' = wsRef /\ socks' = socks /\ nSocks' = nSocks
               /\ reconnectTimers' = reconnectTimers
               /\ error' = "WebSocket connection failed"
               /\ ~connected' /\ ~loading'
               /\ task'.sock = task.sock]_vars
    /\ [][(wsRef # 0 /\ wsRef' = 0) => (task.sock # 0 /\ ~task.errorDue)]_vars

\* C7 witness: the referenced socket, once open, failed and its error event
\* was handled with its close event still to come
C7_Witness ==
    /\ op = "onerror" /\ wsRef # 0 /\ task.sock = wsRef /\ socks[wsRef].wasOpen
    /\ error = "WebSocket connection failed" /\ ~connected

-----------------------------------------------------------------------------
(* Resampling engine: bounds and constants *)

MaxCalls == 2      \* calls of process / onaudioprocess

NegScale == 32768  \* 0x8000, pcm-audio-processor.js:33, part_002:33
PosScale == 32767  \* 0x7fff, pcm-audio-processor.js:33, part_002:33

\* A sample is an integer number of 1/Unit: the float 1.0 is Unit
Unit == NegScale

\* Native sample rates of the audio context
Rates == {8000, 11025, 16000, PCM_SAMPLE_RATE, 44100, 48000}

\* The two realizations of the capture engine
Impls == {"worklet", "script"}

\* Input block lengths: the render quantum of a worklet, one 48 kHz frame,
\* the ScriptProcessor buffer of part_002:163
BlockSizes == {128, 960, 2048}

\* Input signals: a constant, a full-scale pseudo-random signal, a
\* pseudo-random signal that leaves [-1, 1]
Patterns == {"const", "noise", "hot"}

\* the sample of signal pat at stream position g
Sample(pat, g) ==
    CASE pat = "const" -> Unit \div 2
      [] pat = "noise" -> ((g * 7919) % (2 * Unit + 1)) - Unit
      [] pat = "hot" -> ((g * 104729) % (4 * Unit + 1)) - 2 * Unit

\* the block of n samples of signal pat that follows stream position from
Block(pat, from, n) == [j \in 1..n |-> Sample(pat, from + j)]

-----------------------------------------------------------------------------
(* Resampling engine: pure functions *)

\* pcm-audio-processor.js:9, Math.round(PCM_FRAME_SAMPLES * this._ratio)
NeededInput(rate) ==
    (2 * PCM_FRAME_SAMPLES * rate + PCM_SAMPLE_RATE) \div (2 * PCM_SAMPLE_RATE)

\* part_002:167, splice(0, requiredInputSamples) with requiredInputSamples =
\* PCM_FRAME_SAMPLES * sampleRateRatio (part_002:123, not rounded): splice
\* truncates the count
SpliceCount(rate, impl) ==
    IF impl = "worklet" THEN NeededInput(rate)
    ELSE (PCM_FRAME_SAMPLES * rate) \div PCM_SAMPLE_RATE

\* a loop test that leaves a full accumulator alone
EnoughStrict(len, rate, impl) ==
    IF impl = "worklet" THEN len > NeededInput(rate)
    ELSE len * PCM_SAMPLE_RATE > PCM_FRAME_SAMPLES * rate

\* pcm-audio-processor.js:27 and part_002:166, the loop test
Enough(len, rate, impl) ==
    IF impl = "worklet" THEN len >= NeededInput(rate)
    ELSE len * PCM_SAMPLE_RATE >= PCM_FRAME_SAMPLES * rate

RECURSIVE SumRange(_, _, _)
\* pcm-audio-processor.js:49-52, acc over segment indices a..b (0-based)
SumRange(segment, a, b) ==
    IF a > b THEN 0 ELSE segment[a + 1] + SumRange(segment, a + 1, b)

\* pcm-audio-processor.js:44, Math.floor(i * ratio)
WinStart(i, rate) == (i * rate) \div PCM_SAMPLE_RATE

\* pcm-audio-processor.js:45-46, rawEnd and end
WinEnd(i, rate) ==
    LET rawEnd == ((i + 1) * rate) \div PCM_SAMPLE_RATE
    IN  IF rawEnd > WinStart(i, rate) THEN rawEnd ELSE WinStart(i, rate) + 1

\* pcm-audio-processor.js:49, the indices the loop visits: j < end and
\* j < segment.length
WinIndices(segment, i, rate) ==
    {j \in WinStart(i, rate)..(WinEnd(i, rate) - 1) : j < Len(segment)}

\* pcm-audio-processor.js:53, segment[Math.min(start, segment.length - 1)] ?? 0
FallbackSample(segment, i, rate) ==
    IF Len(segment) = 0 THEN 0
    ELSE IF WinStart(i, rate) < Len(segment) - 1 THEN segment[WinStart(i, rate) + 1]
    ELSE segment[Len(segment)]

\* an output sample that is the sum of its window, not the mean
OutputSampleSum(segment, i, rate) ==
    LET idx == WinIndices(segment, i, rate)
    IN  IF idx # {}
        THEN <<SumRange(segment, WinStart(i, rate), WinStart(i, rate) + Cardinality(idx) - 1),
               1>>
        ELSE <<FallbackSample(segment, i, rate), 1>>

\* an output sample that is 0 when the window is empty
OutputSampleZero(segment, i, rate) ==
    LET idx == WinIndices(segment, i, rate)
    IN  IF idx # {}
        THEN <<SumRange(segment, WinStart(i, rate), WinStart(i, rate) + Cardinality(idx) - 1),
               Cardinality(idx)>>
        ELSE <<0, 1>>

\* pcm-audio-processor.js:43-53, one output sample as the fraction
\* <<numerator, denominator>>: acc / count, or the fallback sample
OutputSample(segment, i, rate) ==
    LET idx == WinIndices(segment, i, rate)
    IN  IF idx # {}
        THEN <<SumRange(segment, WinStart(i, rate), WinStart(i, rate) + Cardinality(idx) - 1),
               Cardinality(idx)>>
        ELSE <<FallbackSample(segment, i, rate), 1>>

\* an output as long as the ratio makes of the segment
OutputLengthFromSegment(segment, rate) == (Len(segment) * PCM_SAMPLE_RATE) \div rate

\* pcm-audio-processor.js:29 and part_002:171, the outputLength argument
OutputLength(segment, rate) == PCM_FRAME_SAMPLES

\* pcm-audio-processor.js:41-56 and part_002:38-57, _downsample / downsample
Downsample(segment, rate, outputLength) ==
    [k \in 1..outputLength |-> OutputSample(segment, k - 1, rate)]

\* a conversion without the clamp
ClampSampleNone(x) == x

\* pcm-audio-processor.js:32 and part_002:32, Math.max(-1, Math.min(1, s)) of
\* the sample x = <<num, den>>, which stands for num / (den * Unit)
ClampSample(x) ==
    LET one == x[2] * Unit
    IN  IF x[1] >= one THEN <<one, x[2]>>
        ELSE IF x[1] <= -one THEN <<-one, x[2]>>
        ELSE x

\* pcm-audio-processor.js:33 and part_002:33, s < 0 ? s * 0x8000 : s * 0x7fff,
\* and the integer part of the product (the store truncates toward zero)
\* (m * scale) \div (x[2] * Unit) for the magnitude m, computed from
\* m = a * x[2] + b so that no product leaves the 32-bit integers.
ScaleTrunc(x) ==
    LET scale == IF x[1] < 0 THEN NegScale ELSE PosScale
        m == IF x[1] < 0 THEN -x[1] ELSE x[1]
        a == m \div x[2]
        b == m % x[2]
        q == a * (scale \div Unit) + (a * (scale % Unit)) \div Unit
        r == (a * (scale % Unit)) % Unit
        t == q + (r * x[2] + b * scale) \div (x[2] * Unit)
    IN  IF x[1] < 0 THEN -t ELSE t

\* the store of the integer n into an Int16Array element: modulo 2^16
StoreInt16(n) == ((n + NegScale) % (2 * NegScale)) - NegScale

\* pcm-audio-processor.js:32-33 and part_002:32-33: clamp to [-1, 1], scale,
\* store into an Int16Array
ToInt16(x) == StoreInt16(ScaleTrunc(ClampSample(x)))

\* pcm-audio-processor.js:30-34 and part_002:29-36, the Int16Array of a frame
FloatChunkToInt16(chunk) == [k \in 1..Len(chunk) |-> ToInt16(chunk[k])]

\* pcm-audio-processor.js:28-35, one emitted frame: the segment removed from
\* the accumulator, its downsampled samples, the PCM posted to the main thread
Frame(segment, rate) ==
    LET downsampled == Downsample(segment, rate, OutputLength(segment, rate))
    IN  [seg |-> segment, out |-> downsampled, pcm |-> FloatChunkToInt16(downsampled)]

RECURSIVE Drain(_, _, _)
\* pcm-audio-processor.js:27-36 and part_002:166-176, the while loop: the
\* accumulator it leaves and the frames it emits
Drain(buf, rate, impl) ==
    IF Enough(Len(buf), rate, impl)
    THEN LET n == SpliceCount(rate, impl)
             rest == Drain(SubSeq(buf, n + 1, Len(buf)), rate, impl)
         IN  [buf |-> rest.buf,
              frames |-> <<Frame(SubSeq(buf, 1, n), rate)>> \o rest.frames]
    ELSE [buf |-> buf, frames |-> <<>>]

RECURSIVE SegsLen(_)
\* the number of samples the frames fs removed from the accumulator
SegsLen(fs) == IF fs = <<>> THEN 0 ELSE Len(fs[1].seg) + SegsLen(Tail(fs))

-----------------------------------------------------------------------------
(* Resampling engine: actions *)

\* pcm-audio-processor.js:12-39, process(inputs) with a channel of n samples,
\* and part_002:164-177, onaudioprocess
ProcessBlock ==
    /\ eCalls < MaxCalls
    /\ \E n \in BlockSizes, pat \in Patterns :
         LET channel == Block(pat, Len(eFed), n)
             r == Drain(eBuffer \o channel, eRate, eImpl)
         IN  /\ eFed' = eFed \o channel
             /\ eBuffer' = r.buf
             /\ eLast' = r.frames
             /\ eEmitted' = eEmitted + Len(r.frames)
             /\ eConsumed' = eConsumed + SegsLen(r.frames)
    /\ eCalls' = eCalls + 1
    /\ op' = "process"
    /\ UNCHANGED <<eRate, eImpl>>
    /\ UNCHANGED voiceVars
    /\ UNCHANGED provVars
    /\ UNCHANGED fnVars
    /\ UNCHANGED hookVars
    /\ UNCHANGED auxVars

\* pcm-audio-processor.js:13-21, process(inputs) without an input or without
\* a channel: the early return
ProcessNoInput ==
    /\ eImpl = "worklet"
    /\ eCalls < MaxCalls
    /\ eCalls' = eCalls + 1
    /\ eLast' = <<>>
    /\ op' = "noInput"
    /\ UNCHANGED <<eRate, eImpl, eBuffer, eFed, eConsumed, eEmitted>>
    /\ UNCHANGED voiceVars
    /\ UNCHANGED provVars
    /\ UNCHANGED fnVars
    /\ UNCHANGED hookVars
    /\ UNCHANGED auxVars

EngInit ==
    /\ VoiceInitState
    /\ ucoReady = FALSE
    /\ variant = "Unmute.tsx"
    /\ ProvInitState
    /\ EngInitState
    /\ eRate \in Rates
    /\ eImpl \in Impls
    /\ FnInitState
    /\ HookInitState
    /\ AuxInitState
    /\ wsUses = {}
    /\ op = "init"

EngNext ==
    \/ ProcessBlock
    \/ ProcessNoInput

EngSpec == EngInit /\ [][EngNext]_vars

-----------------------------------------------------------------------------
(* Resampling engine: properties *)

\* C8 (frame size invariant): every frame the engine emits, for any input
\* blocks and any native rate, in either realization, has exactly 480
\* samples, i.e. 960 bytes of 16-bit PCM.
C8_FrameSize ==
    \A k \in 1..Len(eLast) :
        /\ Len(eLast[k].out) = PCM_FRAME_SAMPLES
        /\ Len(eLast[k].pcm) = PCM_FRAME_SAMPLES
        /\ 2 * Len(eLast[k].pcm) = 960

\* C8 witness: the fallback at 11025 Hz emitted several frames in one call,
\* each from a segment of 220 samples, with samples left over
C8_Witness ==
    /\ eImpl = "script" /\ eRate = 11025 /\ Len(eLast) >= 2
    /\ Len(eLast[1].seg) = 220 /\ Len(eBuffer) > 0

\* C9 (accumulator draining, worklet): after every call the accumulator
\* holds fewer than neededInput samples; the samples appended so far are
\* neededInput times the frames emitted plus the samples still buffered; the
\* segments removed are consecutive pieces of the input in arrival order and
\* the accumulator is the rest of the input.
C9_AccumulatorDraining ==
    eImpl = "worklet" =>
        LET N == NeededInput(eRate)
            base == eConsumed - Len(eLast) * N
        IN  /\ Len(eBuffer) < N
            /\ Len(eFed) = N * eEmitted + Len(eBuffer)
            /\ eConsumed = N * eEmitted
            /\ \A k \in 1..Len(eLast) :
                 eLast[k].seg = SubSeq(eFed, base + (k - 1) * N + 1, base + k * N)
            /\ eBuffer = SubSeq(eFed, eConsumed + 1, Len(eFed))

\* C9 witness: the worklet emitted frames in two calls and keeps a remainder
C9_Witness ==
    /\ eImpl = "worklet" /\ eCalls = 2 /\ Len(eLast) >= 1
    /\ eEmitted > Len(eLast) /\ Len(eBuffer) > 0

\* C12 (realizations agree): fed the same input at the same native rate, the
\* worklet and the ScriptProcessor fallback emit the same frames, also at
\* rates where 480 * rate / 24000 is not an integer.  At 11025 Hz the worklet
\* takes round(220.5) = 221 samples per frame and the fallback takes 220.
C12_IdenticalFraming ==
    Drain(eFed, eRate, "worklet").frames = Drain(eFed, eRate, "script").frames

RECURSIVE SetSum(_, _)
\* the sum of the segment samples with 0-based index in W
SetSum(segment, W) ==
    IF W = {} THEN 0
    ELSE LET j == CHOOSE x \in W : TRUE
         IN  segment[j + 1] + SetSum(segment, W \ {j})

\* C10 (box filter): output sample i of a frame is the arithmetic mean of
\* the segment samples with index in [floor(i*ratio),
\* max(floor((i+1)*ratio), floor(i*ratio)+1)) clipped to the segment length,
\* and the last sample of the segment when that window is empty; it is
\* never a quotient by zero.
C10_BoxFilter ==
    \A k \in 1..Len(eLast) :
        \A i \in 0..(PCM_FRAME_SAMPLES - 1) :
            LET seg == eLast[k].seg
                o == eLast[k].out[i + 1]
                lo == (i * eRate) \div PCM_SAMPLE_RATE
                hi0 == ((i + 1) * eRate) \div PCM_SAMPLE_RATE
                hi == IF hi0 > lo + 1 THEN hi0 ELSE lo + 1
                W == {j \in lo..(hi - 1) : j < Len(seg)}
            IN  /\ o[2] > 0
                /\ IF W # {}
                   THEN o[1] * Cardinality(W) = SetSum(seg, W) * o[2]
                   ELSE o = <<seg[Len(seg)], 1>>

\* C10 witness: the fallback at 11025 Hz takes segments of 220 samples, the
\* window of output 479 starts at index 220, and the output is the last
\* sample of the segment, which is not zero
C10_Witness ==
    /\ eImpl = "script" /\ eRate = 11025 /\ Len(eLast) >= 1
    /\ (479 * eRate) \div PCM_SAMPLE_RATE >= Len(eLast[1].seg)
    /\ eLast[1].out[480] = <<eLast[1].seg[220], 1>>
    /\ eLast[1].seg[220] # 0

-----------------------------------------------------------------------------
(* Sample conversions: bounds and constants *)

SubSteps == 4      \* input values per 1/Unit
MaxGrid == 12      \* grid points on each side of 0

DecodeScale == 32768   \* Unmute.tsx:42, int16 / 32768

\* Input values in 1/Unit: the ends of [-1, 1] and their neighbours, values
\* outside the range, small values, and a grid over [-1, 1]
SampleCoarse ==
    {-2 * Unit, -Unit - 1, -Unit, -Unit + 1, -29491, -(Unit \div 2), -2, -1, 0,
     1, 2, Unit \div 2, 29491, Unit - 1, Unit, Unit + 1, 2 * Unit}
    \cup {k * (Unit \div MaxGrid) : k \in (-MaxGrid)..MaxGrid}

\* Input values in 1/(SubSteps * Unit): every coarse value and the values
\* between it and the next multiple of 1/Unit
SampleNums == {SubSteps * a + b : a \in SampleCoarse, b \in 0..(SubSteps - 1)}

\* What an element of the chunk can be
SampleKinds == {"number", "missing", "nan"}

-----------------------------------------------------------------------------
(* Sample conversions: pure functions *)

\* part_002:32 and pcm-audio-processor.js:32, chunk[i] ?? 0 then the clamp
\* and the scaling; the integer part of the product.  A missing element is 0;
\* NaN passes the clamp and the scaling as NaN, which has no integer part:
\* it is 0 here, the value the store makes of it.
EncodeScaled(kind, num) ==
    IF kind = "number" THEN ScaleTrunc(ClampSample(<<num, SubSteps>>))
    ELSE 0

\* part_002:35, new Uint8Array(pcm.buffer): the two bytes of the Int16Array
\* element, low byte first (the byte order of the platforms browsers run on)
Int16Bytes(n) ==
    LET u == n % (2 * NegScale)
    IN  <<u % 256, u \div 256>>

\* Unmute.tsx:41, view.getInt16(i * 2, true): little-endian, two's complement
GetInt16LE(b) ==
    LET u == b[1] + 256 * b[2]
    IN  IF u >= NegScale THEN u - 2 * NegScale ELSE u

\* part_002:29-36, floatChunkToInt16 of one element
FloatToPcmBytes(kind, num) ==
    IF kind = "number" THEN Int16Bytes(ToInt16(<<num, SubSteps>>))
    ELSE Int16Bytes(StoreInt16(0))

\* Unmute.tsx:36-45, uint8PcmToFloat32 of one sample
Uint8PcmToFloat32(b) == <<GetInt16LE(b), DecodeScale>>

\* the input stream of the claim about constant input: two frames' worth of
\* the value v at twice the target rate
ConstantStream(v) == [j \in 1..(2 * NeededInput(2 * PCM_SAMPLE_RATE)) |-> v]

-----------------------------------------------------------------------------
(* Sample conversions: actions *)

\* part_002:29-36, floatChunkToInt16 applied to the input
Encode ==
    /\ fStage = "input"
    /\ fStage' = "encoded"
    /\ fScaled' = EncodeScaled(fKind, fNum)
    /\ fBytes' = FloatToPcmBytes(fKind, fNum)
    /\ op' = "encode"
    /\ UNCHANGED <<fKind, fNum, fDec, fFrames>>
    /\ UNCHANGED voiceVars
    /\ UNCHANGED provVars
    /\ UNCHANGED engVars
    /\ UNCHANGED hookVars
    /\ UNCHANGED auxVars

\* Unmute.tsx:36-45, uint8PcmToFloat32 applied to the encoded bytes
Decode ==
    /\ fStage = "encoded"
    /\ fStage' = "decoded"
    /\ fDec' = Uint8PcmToFloat32(fBytes)
    /\ op' = "decode"
    /\ UNCHANGED <<fKind, fNum, fScaled, fBytes, fFrames>>
    /\ UNCHANGED voiceVars
    /\ UNCHANGED provVars
    /\ UNCHANGED engVars
    /\ UNCHANGED hookVars
    /\ UNCHANGED auxVars

\* pcm-audio-processor.js:23-36 and part_002:164-177 at 48 kHz, fed a stream
\* whose every sample is the input (a multiple of 1/Unit)
ResampleConstant ==
    /\ fStage = "input"
    /\ fKind = "number"
    /\ fNum % SubSteps = 0
    /\ fStage' = "resampled"
    /\ \E impl \in Impls :
         fFrames' = Drain(ConstantStream(fNum \div SubSteps),
                          2 * PCM_SAMPLE_RATE, impl).frames
    /\ op' = "resample"
    /\ UNCHANGED <<fKind, fNum, fScaled, fBytes, fDec>>
    /\ UNCHANGED voiceVars
    /\ UNCHANGED provVars
    /\ UNCHANGED engVars
    /\ UNCHANGED hookVars
    /\ UNCHANGED auxVars

FnInit ==
    /\ VoiceInitState
    /\ ucoReady = FALSE
    /\ variant = "Unmute.tsx"
    /\ ProvInitState
    /\ EngInitState
    /\ eRate = PCM_SAMPLE_RATE
    /\ eImpl = "worklet"
    /\ fKind \in SampleKinds
    /\ fNum \in IF fKind = "number" THEN SampleNums ELSE {0}
    /\ fStage = "input"
    /\ fScaled = 0
    /\ fBytes = <<0, 0>>
    /\ fDec = <<0, 1>>
    /\ fFrames = <<>>
    /\ HookInitState
    /\ AuxInitState
    /\ wsUses = {}
    /\ op = "init"

FnNext ==
    \/ Encode
    \/ Decode
    \/ ResampleConstant

FnSpec == FnInit /\ [][FnNext]_vars

-----------------------------------------------------------------------------
(* Sample conversions: properties *)

\* C11 (constant input): at 48 kHz (ratio exactly 2), for an input stream
\* whose every sample equals v, every sample of every emitted frame equals v
\* before quantization.
C11_ConstantInput ==
    fStage = "resampled" =>
        \A k \in 1..Len(fFrames) :
            \A i \in 1..Len(fFrames[k].out) :
                LET o == fFrames[k].out[i]
                IN  o[2] > 0 /\ o[1] * SubSteps = fNum * o[2]

\* C11 witness: two full frames were emitted for a constant stream of a
\* value that is not zero and lies outside [-1, 1]
C11_Witness ==
    /\ fStage = "resampled" /\ Len(fFrames) = 2
    /\ Len(fFrames[2].out) = PCM_FRAME_SAMPLES
    /\ fNum = SubSteps * (Unit + 1)
    /\ fFrames[2].out[PCM_FRAME_SAMPLES][2] = 2

\* C13 (PCM round trip): for a sample s in [-1, 1], decoding the encoding of
\* s yields a value within one quantization step (1/32768) of s.  The
\* encoder scales positive samples by 32767 and the decoder divides by
\* 32768, so a positive sample can come back more than one step lower.
\* (s is fNum / (SubSteps * Unit) and the decoded value fDec[1] / Unit.)
C13_RoundTrip ==
    (fStage = "decoded" /\ fKind = "number"
       /\ fNum >= -(SubSteps * Unit) /\ fNum <= SubSteps * Unit)
    => /\ fDec[2] = Unit
       /\ fNum - fDec[1] * SubSteps <= SubSteps
       /\ fDec[1] * SubSteps - fNum <= SubSteps

\* C14 (PCM encoding never overflows): for any input, numbers outside
\* [-1, 1] and missing values included, the scaled sample lies in
\* [-32768, 32767], so that the 16-bit store keeps it; -1 maps to -32768,
\* +1 to 32767, values beyond them to the same two integers, and a missing
\* value to 0.
C14_NoOverflow ==
    fStage \in {"encoded", "decoded"} =>
        /\ fScaled >= -32768 /\ fScaled <= 32767
        /\ GetInt16LE(fBytes) = fScaled
        /\ (fKind = "number" /\ fNum <= -(SubSteps * Unit)) => fScaled = -32768
        /\ (fKind = "number" /\ fNum >= SubSteps * Unit) => fScaled = 32767
        /\ (fKind = "number" /\ fNum < 0) => fScaled <= 0
        /\ (fKind = "number" /\ fNum >= 0) => fScaled >= 0
        /\ fKind # "number" => fScaled = 0

\* C14 witness: a sample above +1 was encoded as 32767, bytes FF 7F
C14_Witness ==
    /\ fStage = "encoded" /\ fKind = "number" /\ fNum > SubSteps * Unit
    /\ fScaled = 32767 /\ fBytes = <<255, 127>>


-----------------------------------------------------------------------------
(* The audio-processor hook (part_002:59-257): setupAudio and shutdownAudio *)
(* called in any order, with each await of setupAudio a point where other  *)
(* calls run.                                                              *)

MaxSetups == 2       \* setupAudio calls
MaxShutdowns == 2    \* shutdownAudio calls

\* part_002:68-72, 99, 134-149: a processor whose audio context has just been
\* created; its nodes and its decoder worker do not exist yet.  The counters
\* record the calls of each release step of shutdownAudio on this processor.
NewProcessor ==
    [ctx |-> "running", output |-> "none", decoder |-> "none", capture |-> "none",
     cleanups |-> 0, captureDisconnects |-> 0, outputDisconnects |-> 0,
     terminates |-> 0, closes |-> 0]

\* part_002:80-99, after the first await: the output worklet is connected
\* and the decoder worker started
WithOutputAndDecoder(pr) == [pr EXCEPT !.output = "connected", !.decoder = "live"]

\* part_002:134-150, after the second await: the capture worklet node is
\* connected to the source
WithCapture(pr) == [pr EXCEPT !.capture = "connected"]

\* the release steps of shutdownAudio, part_002:219-247, in source order
ShutdownStepNames ==
    {"cleanupCapture", "captureDisconnect", "outputDisconnect", "terminate", "close"}

\* part_002:151-162 called at :220: cleanupCapture disconnects the capture
\* node unless that fails (it catches its own exceptions)
StepCleanupCapture(pr, ok) ==
    [pr EXCEPT !.cleanups = @ + 1,
               !.capture = IF ok /\ @ = "connected" THEN "disconnected" ELSE @]

\* part_002:226, captureNode.disconnect()
StepCaptureDisconnect(pr, ok) ==
    [pr EXCEPT !.captureDisconnects = @ + 1,
               !.capture = IF ok /\ @ = "connected" THEN "disconnected" ELSE @]

\* part_002:232, outputWorklet.disconnect()
StepOutputDisconnect(pr, ok) ==
    [pr EXCEPT !.outputDisconnects = @ + 1,
               !.output = IF ok /\ @ = "connected" THEN "disconnected" ELSE @]

\* part_002:238, decoder.terminate()
StepTerminate(pr, ok) ==
    [pr EXCEPT !.terminates = @ + 1,
               !.decoder = IF ok /\ @ = "live" THEN "terminated" ELSE @]

\* part_002:244, audioContext.close()
StepClose(pr, ok) ==
    [pr EXCEPT !.closes = @ + 1,
               !.ctx = IF ok THEN "closed" ELSE @]

\* a shutdownAudio whose release steps are not guarded one by one: the first
\* failing step ends the call with its exception
ShutdownStepsUnguarded(pr, fails) ==
    LET p1 == StepCleanupCapture(pr, "cleanupCapture" \notin fails)
        p2 == StepCaptureDisconnect(p1, "captureDisconnect" \notin fails)
        p3 == StepOutputDisconnect(p2, "outputDisconnect" \notin fails)
        p4 == StepTerminate(p3, "terminate" \notin fails)
        p5 == StepClose(p4, "close" \notin fails)
    IN  IF "captureDisconnect" \in fails THEN [proc |-> p2, threw |-> TRUE, cleared |-> FALSE]
        ELSE IF "outputDisconnect" \in fails THEN [proc |-> p3, threw |-> TRUE, cleared |-> FALSE]
        ELSE IF "terminate" \in fails THEN [proc |-> p4, threw |-> TRUE, cleared |-> FALSE]
        ELSE IF "close" \in fails THEN [proc |-> p5, threw |-> TRUE, cleared |-> FALSE]
        ELSE [proc |-> p5, threw |-> FALSE, cleared |-> TRUE]

\* a shutdownAudio that runs its release steps and leaves the processor
\* registered
ShutdownStepsKeepRef(pr, fails) ==
    LET p1 == StepCleanupCapture(pr, "cleanupCapture" \notin fails)
        p2 == StepCaptureDisconnect(p1, "captureDisconnect" \notin fails)
        p3 == StepOutputDisconnect(p2, "outputDisconnect" \notin fails)
        p4 == StepTerminate(p3, "terminate" \notin fails)
        p5 == StepClose(p4, "close" \notin fails)
    IN  [proc |-> p5, threw |-> FALSE, cleared |-> FALSE]

\* part_002:219-249, the release steps of shutdownAudio applied to the
\* registered processor pr when the steps in fails throw: every step sits in
\* its own try/catch, so each one is called, no exception leaves the call and
\* the reference is cleared (:249)
ShutdownSteps(pr, fails) ==
    LET p1 == StepCleanupCapture(pr, "cleanupCapture" \notin fails)
        p2 == StepCaptureDisconnect(p1, "captureDisconnect" \notin fails)
        p3 == StepOutputDisconnect(p2, "outputDisconnect" \notin fails)
        p4 == StepTerminate(p3, "terminate" \notin fails)
        p5 == StepClose(p4, "close" \notin fails)
    IN  [proc |-> p5, threw |-> FALSE, cleared |-> TRUE]

\* the setupAudio calls that are at an await
PendingStages == {"worklet", "module", "resume"}

\* shutdownAudio was called: every setupAudio call at an await remembers it
NoteShutdown(calls) ==
    [c \in 1..Len(calls) |->
        IF calls[c].stage \in PendingStages
        THEN [calls[c] EXCEPT !.shutDuring = TRUE] ELSE calls[c]]

\* part_002:66-80, setupAudio up to its first await: the registered processor
\* is returned when there is one; otherwise an audio context is created
SetupAudioBegin ==
    /\ Len(hCalls) < MaxSetups
    /\ IF hRef # 0
       THEN /\ hCalls' = Append(hCalls, [stage |-> "returned", proc |-> 0,
                                         ret |-> hRef, shutDuring |-> FALSE])
            /\ op' = "setupReturnsExisting"
            /\ UNCHANGED <<hProcs, hSince>>
       ELSE /\ hProcs' = Append(hProcs, NewProcessor)
            /\ hCalls' = Append(hCalls, [stage |-> "worklet", proc |-> Len(hProcs) + 1,
                                         ret |-> 0, shutDuring |-> FALSE])
            /\ hSince' = hSince \cup {Len(hProcs) + 1}
            /\ op' = "setupCreatesContext"
    /\ UNCHANGED <<hRef, hShutdowns, hThrew>>
    /\ UNCHANGED voiceVars
    /\ UNCHANGED provVars
    /\ UNCHANGED engVars
    /\ UNCHANGED fnVars
    /\ UNCHANGED auxVars

\* part_002:80-132, from the first await to the second: getAudioWorkletNode
\* (:6-16) yields the output worklet or rejects; on success the graph is
\* wired and the decoder worker started
SetupAudioOutputReady ==
    \E c \in 1..Len(hCalls) :
        /\ hCalls[c].stage = "worklet"
        /\ \E ok \in BOOLEAN :
             IF ok
             THEN /\ hProcs' = [hProcs EXCEPT ![hCalls[c].proc] = WithOutputAndDecoder(@)]
                  /\ hCalls' = [hCalls EXCEPT ![c].stage = "module"]
                  /\ op' = "setupOutputReady"
             ELSE /\ hCalls' = [hCalls EXCEPT ![c].stage = "rejected"]
                  /\ op' = "setupRejected"
                  /\ UNCHANGED hProcs
        /\ UNCHANGED <<hRef, hShutdowns, hSince, hThrew>>
        /\ UNCHANGED voiceVars
        /\ UNCHANGED provVars
        /\ UNCHANGED engVars
        /\ UNCHANGED fnVars
        /\ UNCHANGED auxVars

\* part_002:131-201, from the second await to the third: addModule resolves
\* or rejects; on success the capture node is created and the processor
\* registered (:190-199)
SetupAudioRegister ==
    \E c \in 1..Len(hCalls) :
        /\ hCalls[c].stage = "module"
        /\ \E ok \in BOOLEAN :
             IF ok
             THEN /\ hProcs' = [hProcs EXCEPT ![hCalls[c].proc] = WithCapture(@)]
                  /\ hCalls' = [hCalls EXCEPT ![c].stage = "resume"]
                  /\ hRef' = hCalls[c].proc
                  /\ op' = "setupRegistered"
             ELSE /\ hCalls' = [hCalls EXCEPT ![c].stage = "rejected"]
                  /\ op' = "setupRejected"
                  /\ UNCHANGED <<hProcs, hRef>>
        /\ UNCHANGED <<hShutdowns, hSince, hThrew>>
        /\ UNCHANGED voiceVars
        /\ UNCHANGED provVars
        /\ UNCHANGED engVars
        /\ UNCHANGED fnVars
        /\ UNCHANGED auxVars

\* part_002:201-202, after the third await: resume() has resolved (it may
\* reject once the context was closed) and setupAudio returns what the
\* reference holds now
SetupAudioReturn ==
    \E c \in 1..Len(hCalls) :
        /\ hCalls[c].stage = "resume"
        /\ \E ok \in BOOLEAN :
             /\ ~ok => hProcs[hCalls[c].proc].ctx = "closed"
             /\ IF ok
                THEN /\ hCalls' = [hCalls EXCEPT ![c].stage = "returned", ![c].ret = hRef]
                     /\ op' = "setupReturned"
                ELSE /\ hCalls' = [hCalls EXCEPT ![c].stage = "rejected"]
                     /\ op' = "setupRejected"
        /\ UNCHANGED <<hRef, hProcs, hShutdowns, hSince, hThrew>>
        /\ UNCHANGED voiceVars
        /\ UNCHANGED provVars
        /\ UNCHANGED engVars
        /\ UNCHANGED fnVars
        /\ UNCHANGED auxVars

\* part_002:207-250, shutdownAudio: nothing when no processor is registered;
\* otherwise the release steps, any of which may throw, and the reference
\* is cleared
ShutdownAudio ==
    /\ hShutdowns < MaxShutdowns
    /\ hShutdowns' = hShutdowns + 1
    /\ hSince' = {}
    /\ hCalls' = NoteShutdown(hCalls)
    /\ IF hRef = 0
       THEN /\ op' = "shutdownNothing"
            /\ UNCHANGED <<hRef, hProcs, hThrew>>
       ELSE \E fails \in SUBSET ShutdownStepNames :
              LET r == ShutdownSteps(hProcs[hRef], fails)
              IN  /\ hProcs' = [hProcs EXCEPT ![hRef] = r.proc]
                  /\ hRef' = IF r.cleared THEN 0 ELSE hRef
                  /\ hThrew' = (hThrew \/ r.threw)
                  /\ op' = IF fails = {} THEN "shutdown" ELSE "shutdownPartial"
    /\ UNCHANGED voiceVars
    /\ UNCHANGED provVars
    /\ UNCHANGED engVars
    /\ UNCHANGED fnVars
    /\ UNCHANGED auxVars

HookInit ==
    /\ VoiceInitState
    /\ ucoReady = FALSE
    /\ variant = "Unmute.tsx"
    /\ ProvInitState
    /\ EngInitState
    /\ eRate = PCM_SAMPLE_RATE
    /\ eImpl = "worklet"
    /\ FnInitState
    /\ HookInitState
    /\ AuxInitState
    /\ wsUses = {}
    /\ op = "init"

HookNext ==
    \/ SetupAudioBegin
    \/ SetupAudioOutputReady
    \/ SetupAudioRegister
    \/ SetupAudioReturn
    \/ ShutdownAudio

HookSpec == HookInit /\ [][HookNext]_vars

-----------------------------------------------------------------------------
(* The audio-processor hook: properties *)

\* the handlers of the hook that are a shutdownAudio call
ShutdownOps == {"shutdown", "shutdownPartial", "shutdownNothing"}

C22_BestEffortTeardown ==
    /\ []~hThrew
    /\ [][(hShutdowns' = hShutdowns + 1 /\ hRef # 0)
            => /\ hRef' = 0
               /\ hProcs'[hRef].cleanups = hProcs[hRef].cleanups + 1
               /\ hProcs'[hRef].captureDisconnects = hProcs[hRef].captureDisconnects + 1
               /\ hProcs'[hRef].outputDisconnects = hProcs[hRef].outputDisconnects + 1
               /\ hProcs'[hRef].terminates = hProcs[hRef].terminates + 1
               /\ hProcs'[hRef].closes = hProcs[hRef].closes + 1]_vars

\* C22 witness: the output-node disconnect failed (the node is still
\* connected), yet the audio context was closed, the decoder terminated and
\* the reference cleared
C22_Witness ==
    /\ op = "shutdownPartial" /\ hRef = 0 /\ ~hThrew
    /\ \E p \in 1..Len(hProcs) :
         /\ hProcs[p].output = "connected" /\ hProcs[p].outputDisconnects = 1
         /\ hProcs[p].ctx = "closed" /\ hProcs[p].closes = 1
         /\ hProcs[p].decoder = "terminated"

\* the setupAudio calls that have returned a value
ReturnedCalls == {c \in 1..Len(hCalls) : hCalls[c].stage = "returned"}

\* C23 (setupAudio is idempotent): between two shutdownAudio calls at most
\* one processor (audio context, decoder worker, capture node) is created,
\* and as long as shutdownAudio has not been called every setupAudio call
\* that has returned has returned the same processor, calls that overlap
\* included.  The existing-processor test (part_002:66) reads a reference
\* that is assigned only after two awaits (:190), so a call that starts
\* while another one is awaiting builds a second processor.
C23_SetupIdempotent ==
    /\ Cardinality(hSince) <= 1
    /\ hShutdowns = 0 =>
          \A c, d \in ReturnedCalls : hCalls[c].ret = hCalls[d].ret

\* C30 (teardown wins over an in-flight setup): when shutdownAudio was
\* called while a setupAudio call was at one of its awaits, then at the
\* moment that call returns no processor is registered and the audio
\* context, decoder worker and capture node the call created are not
\* running.  shutdownAudio returns at once while the reference is null
\* (part_002:208-209), and the call registers its processor afterwards
\* (:190).
C30_TeardownWinsOverSetup ==
    [][\A c \in 1..Len(hCalls) :
          (/\ hCalls[c].stage \in PendingStages
           /\ hCalls[c].shutDuring
           /\ hCalls'[c].stage = "returned")
          => /\ hRef' = 0
             /\ hProcs'[hCalls[c].proc].ctx # "running"
             /\ hProcs'[hCalls[c].proc].decoder # "live"
             /\ hProcs'[hCalls[c].proc].capture # "connected"]_vars

-----------------------------------------------------------------------------
(* Deduplicating provider (IntiCommunicationProvider-dedupe.tsx): reconnect *)

MaxDdSocks == 8    \* DeduplicatedWebSocket objects constructed
MaxDdMounts == 2   \* runs of the mount effect

\* dedupe.tsx:61
maxReconnectAttempts == 5

\* dedupe.tsx:265, the base and the cap of the reconnect delay, in ms
ReconnectBaseMs == 1000
ReconnectCapMs == 10000

\* a close listener that also reconnects when the counter is at the maximum
ShouldReconnectInclusive(attempt) == attempt <= maxReconnectAttempts

\* dedupe.tsx:263, connectAttemptRef.current < maxReconnectAttempts
ShouldReconnect(attempt) == attempt < maxReconnectAttempts

\* dedupe.tsx:265, Math.min(1000 * Math.pow(2, attempt), 10000)
ReconnectDelay(attempt) ==
    IF ReconnectBaseMs * 2^attempt < ReconnectCapMs
    THEN ReconnectBaseMs * 2^attempt ELSE ReconnectCapMs

\* deduplicatedWebSocket.ts:245-247, the readyState getter of wrapper w: the
\* state of its socket, CLOSED when close() dropped the socket or its close
\* event was dispatched
DdReadyState(w) ==
    IF w \in ddWsNull \/ w \notin DOMAIN ddSocks THEN "CLOSED" ELSE ddSocks[w]

\* dedupe.tsx:226, the early return of initializeConnection
DdAlreadyConnected == ddRef # 0 /\ DdReadyState(ddRef) = "OPEN"

\* dedupe.tsx:225-282, initializeConnection run on the socket table sk: the
\* early return, or a new wrapper stored in wsRef with its listeners, and
\* connect() (deduplicatedWebSocket.ts:40-51) constructing its socket
InitializeConnection(sk) ==
    /\ ~DdAlreadyConnected => nDdSocks < MaxDdSocks
    /\ ddSocks' = IF DdAlreadyConnected THEN sk
                  ELSE (nDdSocks + 1 :> "CONNECTING") @@ sk
    /\ nDdSocks' = IF DdAlreadyConnected THEN nDdSocks ELSE nDdSocks + 1
    /\ ddRef' = IF DdAlreadyConnected THEN ddRef ELSE nDdSocks + 1

DdOthersUnchanged ==
    /\ UNCHANGED ddRest
    /\ UNCHANGED voiceVars
    /\ UNCHANGED provVars
    /\ UNCHANGED engVars
    /\ UNCHANGED fnVars
    /\ UNCHANGED hookVars

\* dedupe.tsx:342-344, the mount effect (checkStoredAuth touches the
\* authentication fields only)
DdMount ==
    /\ ddMounted \in {"no", "gone"}
    /\ nDdMounts < MaxDdMounts
    /\ nDdMounts' = nDdMounts + 1
    /\ ddMounted' = "yes"
    /\ InitializeConnection(ddSocks)
    /\ op' = "dd.mount"
    /\ UNCHANGED <<ddWsNull, connectAttemptRef, ddTimers, ddError, ddConnected,
                   ddCloses>>
    /\ DdOthersUnchanged

\* dedupe.tsx:347-354, the cleanup of the mount effect: close() of the
\* wrapper (deduplicatedWebSocket.ts:231-243) closes and drops its socket;
\* the reconnect timers are left pending
DdUnmount ==
    /\ ddMounted = "yes"
    /\ ddMounted' = "gone"
    /\ ddSocks' = IF ddRef # 0 /\ ddRef \notin ddWsNull /\ ddRef \in DOMAIN ddSocks
                  THEN [ddSocks EXCEPT ![ddRef] = "CLOSING"] ELSE ddSocks
    /\ ddWsNull' = IF ddRef # 0 THEN ddWsNull \cup {ddRef} ELSE ddWsNull
    /\ op' = "dd.unmount"
    /\ UNCHANGED <<nDdSocks, ddRef, connectAttemptRef, ddTimers, ddError,
                   ddConnected, nDdMounts, ddCloses>>
    /\ DdOthersUnchanged

\* dedupe.tsx:235-249, the open listener, called by the socket's onopen
\* (deduplicatedWebSocket.ts:56-60)
DdSockOpens ==
    /\ \E s \in DOMAIN ddSocks :
         /\ ddSocks[s] = "CONNECTING"
         /\ ddSocks' = [ddSocks EXCEPT ![s] = "OPEN"]
    /\ connectAttemptRef' = 0
    /\ ddConnected' = TRUE
    /\ ddError' = "null"
    /\ ddCloses' = 0
    /\ op' = "dd.open"
    /\ UNCHANGED <<nDdSocks, ddRef, ddWsNull, ddTimers, ddMounted, nDdMounts>>
    /\ DdOthersUnchanged

\* dedupe.tsx:253-275, the close event of a socket, after its error event
\* when the connection failed: the error listener (253-256), then the close
\* listener (258-275)
DdSockCloses ==
    /\ \E s \in DOMAIN ddSocks :
         ddSocks' = [t \in DOMAIN ddSocks \ {s} |-> ddSocks[t]]
    /\ ddConnected' = FALSE
    /\ ddCloses' = ddCloses + 1
    /\ \E withError \in BOOLEAN :
         IF ShouldReconnect(connectAttemptRef)
         THEN /\ connectAttemptRef' = connectAttemptRef + 1
              /\ ddTimers' = Append(ddTimers, ReconnectDelay(connectAttemptRef + 1))
              /\ ddError' = IF withError THEN "Connection error" ELSE ddError
         ELSE /\ ddError' = "Connection failed - max retries exceeded"
              /\ UNCHANGED <<connectAttemptRef, ddTimers>>
    /\ op' = "dd.close"
    /\ UNCHANGED <<nDdSocks, ddRef, ddWsNull, ddMounted, nDdMounts>>
    /\ DdOthersUnchanged

\* dedupe.tsx:268-270, a reconnect timer fires
DdTimerFires ==
    /\ \E i \in 1..Len(ddTimers) :
         ddTimers' = SubSeq(ddTimers, 1, i - 1) \o SubSeq(ddTimers, i + 1, Len(ddTimers))
    /\ InitializeConnection(ddSocks)
    /\ op' = "dd.timer"
    /\ UNCHANGED <<ddWsNull, connectAttemptRef, ddError, ddConnected, ddMounted,
                   nDdMounts, ddCloses>>
    /\ DdOthersUnchanged

DdInit ==
    /\ VoiceInitState
    /\ ucoReady = FALSE
    /\ variant = "Unmute.tsx"
    /\ ProvInitState
    /\ EngInitState
    /\ eRate = PCM_SAMPLE_RATE
    /\ eImpl = "worklet"
    /\ FnInitState
    /\ HookInitState
    /\ AuxInitState
    /\ wsUses = {}
    /\ op = "init"

DdNext ==
    \/ DdMount
    \/ DdUnmount
    \/ DdSockOpens
    \/ DdSockCloses
    \/ DdTimerFires

DdSpec == DdInit /\ [][DdNext]_vars

-----------------------------------------------------------------------------
(* Deduplicating provider: properties *)

\* C34 (bounded reconnect): the attempt counter never exceeds
\* maxReconnectAttempts; every open event resets it to 0; a close event that
\* follows maxReconnectAttempts consecutive closes with no open schedules no
\* further reconnect and sets the error to the max-retries report; every
\* reconnect that is scheduled is attempt n = the number of consecutive
\* closes, with the delay min(1000 * 2^n, 10000) ms.
C34_BoundedReconnect ==
    /\ [](connectAttemptRef <= maxReconnectAttempts)
    /\ [][op' = "dd.open" => connectAttemptRef' = 0]_vars
    /\ [][(op' = "dd.close" /\ ddCloses >= maxReconnectAttempts)
            => /\ ddTimers' = ddTimers
               /\ ddError' = "Connection failed - max retries exceeded"]_vars
    /\ [][Len(ddTimers') > Len(ddTimers)
            => /\ connectAttemptRef' = ddCloses'
               /\ ddTimers'[Len(ddTimers')] =
                    IF 1000 * 2^ddCloses' < 10000
                    THEN 1000 * 2^ddCloses' ELSE 10000]_vars

\* C34 witness: five reconnects were attempted and closed with no open, the
\* sixth close scheduled nothing and reported the exhausted retries
C34_Witness ==
    /\ op = "dd.close"
    /\ ddCloses = maxReconnectAttempts + 1
    /\ connectAttemptRef = maxReconnectAttempts
    /\ ddTimers = <<>>
    /\ ddError = "Connection failed - max retries exceeded"

-----------------------------------------------------------------------------
(* DeduplicatedWebSocket (deduplicatedWebSocket.ts): bounds, constants *)

MaxWsSocks == 2    \* WebSocket objects constructed
MaxWsSends == 3    \* send() calls of a run that uses several messages
MaxWsTicks == 1    \* advances of the clock

\* the advances of the clock: inside the debounce window, the window
\* exactly, past the time to live, a period of the cleanup interval
TickSteps == {50, 100, 5001, 10000}

\* the messages of a run, as the character codes of their strings: "Aa" and
\* "BB" have the same hash, "C" another
MsgAa == <<65, 97>>
MsgBB == <<66, 66>>
MsgC == <<67>>

RECURSIVE HashFrom(_, _, _)
\* deduplicatedWebSocket.ts:80-85, hash = ((hash << 5) - hash) + char,
\* truncated to 32 bits by hash & hash; for the strings of at most two
\* characters used here the value stays below 2^31 and the truncation
\* leaves it alone
HashFrom(str, i, hash) ==
    IF i > Len(str) THEN hash
    ELSE HashFrom(str, i + 1, (hash * 32 - hash) + str[i])

\* deduplicatedWebSocket.ts:77-87, generateMessageHash (the base-36 text of
\* the number is one-to-one, the number stands for it)
generateMessageHash(message) == HashFrom(message, 1, 0)

\* the readyState of this.ws: CLOSED once its close event was dispatched
WsReadyState(sk, w) == IF w \in DOMAIN sk THEN sk[w] ELSE "CLOSED"

\* deduplicatedWebSocket.ts:112 and :121, this.ws is set and open
WsIsOpen(sk, w) == w # 0 /\ WsReadyState(sk, w) = "OPEN"

\* deduplicatedWebSocket.ts:89-103, shouldSkipMessage
shouldSkipMessage(message) ==
    /\ generateMessageHash(message) \in DOMAIN sentMessages
    /\ wsNow - sentMessages[generateMessageHash(message)] < debounceMs

\* a queue that drops the newest message when it is full
queueMessageDropsNewest(queue, message) ==
    IF Len(queue) >= QueueLimit THEN queue
    ELSE Append(queue, [message |-> message, timestamp |-> wsNow, attempts |-> 0])

\* deduplicatedWebSocket.ts:144-157, queueMessage: push, then shift when the
\* queue is longer than 50
queueMessage(queue, message) ==
    LET pushed == Append(queue, [message |-> message, timestamp |-> wsNow,
                                 attempts |-> 0])
    IN  IF Len(pushed) > QueueLimit THEN Tail(pushed) ELSE pushed

\* deduplicatedWebSocket.ts:161-173, the filter of processQueuedMessages
ToSend(item) ==
    /\ ~(wsNow - item.timestamp > messageTTL)
    /\ ~(item.attempts >= maxRetries)

\* deduplicatedWebSocket.ts:129-134, sentMessages after the messages of the
\* items were tracked at the present time
Tracked(sent, items) ==
    LET hs == {generateMessageHash(items[i].message) : i \in 1..Len(items)}
    IN  [h \in DOMAIN sent \cup hs |-> IF h \in hs THEN wsNow ELSE sent[h]]

\* the last transmission times after the messages of the items were handed
\* to WebSocket.send at the present time
Transmitted(last, items) ==
    LET ms == {items[i].message : i \in 1..Len(items)}
    IN  [m \in DOMAIN last \cup ms |-> IF m \in ms THEN wsNow ELSE last[m]]

\* handing the items to WebSocket.send now repeats a message transmitted
\* less than debounceMs ago, or transmits one message twice
Repeats(last, items) ==
    \/ \E i \in 1..Len(items) :
         /\ items[i].message \in DOMAIN last
         /\ wsNow - last[items[i].message] < debounceMs
    \/ \E i, j \in 1..Len(items) : i < j /\ items[i].message = items[j].message

DwsOthersUnchanged ==
    /\ UNCHANGED dwsRest
    /\ UNCHANGED voiceVars
    /\ UNCHANGED provVars
    /\ UNCHANGED engVars
    /\ UNCHANGED fnVars
    /\ UNCHANGED hookVars

\* deduplicatedWebSocket.ts:40-51, connect()
WsConnect ==
    /\ ~WsIsOpen(wsSocks, wsWs)
    /\ nWsSocks < MaxWsSocks
    /\ nWsSocks' = nWsSocks + 1
    /\ wsSocks' = (nWsSocks + 1 :> "CONNECTING") @@ wsSocks
    /\ wsWs' = nWsSocks + 1
    /\ op' = "ws.connect"
    /\ UNCHANGED <<sentMessages, messageQueue, cleanupInterval, nextCleanup,
                   wsNow, wsLastTx, wsDup, wsLast, wsUses, nWsSends, nWsTicks>>
    /\ wsBurst' = 0
    /\ UNCHANGED wsShifted
    /\ DwsOthersUnchanged

\* deduplicatedWebSocket.ts:56-60 and 159-186, the open event of a socket
\* and processQueuedMessages: every item that passes the filter has its
\* attempts counted and is handed to sendImmediate, which sends on this.ws
\* when that is open, and the items sent are removed
WsOpens ==
    /\ \E s \in DOMAIN wsSocks :
         /\ wsSocks[s] = "CONNECTING"
         /\ wsSocks' = [wsSocks EXCEPT ![s] = "OPEN"]
    /\ IF WsIsOpen(wsSocks', wsWs)
       THEN /\ messageQueue' = SelectSeq(messageQueue, LAMBDA item : ~ToSend(item))
            /\ wsLastTx' = Transmitted(wsLastTx, SelectSeq(messageQueue, ToSend))
            /\ wsBurst' = Len(SelectSeq(messageQueue, ToSend))
            /\ wsDup' = (wsDup \/ Repeats(wsLastTx, SelectSeq(messageQueue, ToSend)))
            /\ sentMessages' = Tracked(sentMessages, SelectSeq(messageQueue, ToSend))
       ELSE /\ messageQueue' =
                   [i \in 1..Len(messageQueue) |->
                      IF ToSend(messageQueue[i])
                      THEN [messageQueue[i] EXCEPT !.attempts = @ + 1]
                      ELSE messageQueue[i]]
            /\ wsBurst' = 0
            /\ UNCHANGED <<wsLastTx, wsDup, sentMessages>>
    /\ op' = "ws.open"
    /\ UNCHANGED wsShifted
    /\ UNCHANGED <<nWsSocks, wsWs, cleanupInterval, nextCleanup, wsNow, wsLast,
                   wsUses, nWsSends, nWsTicks>>
    /\ DwsOthersUnchanged

\* deduplicatedWebSocket.ts:71-74, the close event of a socket (the peer
\* closed it, the connection failed, or close() was answered)
WsCloses ==
    /\ \E s \in DOMAIN wsSocks :
         wsSocks' = [t \in DOMAIN wsSocks \ {s} |-> wsSocks[t]]
    /\ op' = "ws.closed"
    /\ wsBurst' = 0
    /\ UNCHANGED wsShifted
    /\ UNCHANGED <<nWsSocks, wsWs, sentMessages, messageQueue, cleanupInterval,
                   nextCleanup, wsNow, wsLastTx, wsDup, wsLast, wsUses,
                   nWsSends, nWsTicks>>
    /\ DwsOthersUnchanged

\* deduplicatedWebSocket.ts:105-118, send(message)
WsSend ==
    /\ nWsSends < MaxWsSends
    /\ nWsSends' = IF Cardinality(wsUses) = 1 THEN nWsSends ELSE nWsSends + 1
    /\ \E message \in wsUses :
         IF shouldSkipMessage(message)
         THEN /\ wsLast' = [message |-> message, result |-> FALSE, skipped |-> TRUE]
              /\ wsBurst' = 0
              /\ UNCHANGED <<messageQueue, wsLastTx, wsDup, wsShifted, sentMessages>>
         ELSE IF ~WsIsOpen(wsSocks, wsWs)
         THEN /\ messageQueue' = queueMessage(messageQueue, message)
              /\ wsLast' = [message |-> message, result |-> FALSE, skipped |-> FALSE]
              /\ wsBurst' = 0
              /\ wsShifted' = (wsShifted \/ Len(messageQueue) >= QueueLimit)
              /\ UNCHANGED <<wsLastTx, wsDup, sentMessages>>
         ELSE /\ wsLastTx' = Transmitted(wsLastTx, <<[message |-> message]>>)
              /\ wsBurst' = 1
              /\ wsDup' = (wsDup \/ Repeats(wsLastTx, <<[message |-> message]>>))
              /\ UNCHANGED wsShifted
              /\ sentMessages' = Tracked(sentMessages, <<[message |-> message]>>)
              /\ wsLast' = [message |-> message, result |-> TRUE, skipped |-> FALSE]
              /\ UNCHANGED messageQueue
    /\ op' = "ws.send"
    /\ UNCHANGED <<wsSocks, nWsSocks, wsWs, cleanupInterval, nextCleanup, wsNow,
                   wsUses, nWsTicks>>
    /\ DwsOthersUnchanged

\* deduplicatedWebSocket.ts:231-243, close()
WsClose ==
    /\ cleanupInterval \/ wsWs # 0 \/ messageQueue # <<>>
       \/ DOMAIN sentMessages # {}
    /\ cleanupInterval' = FALSE
    /\ wsSocks' = IF wsWs \in DOMAIN wsSocks
                  THEN [wsSocks EXCEPT ![wsWs] = "CLOSING"] ELSE wsSocks
    /\ wsWs' = 0
    /\ sentMessages' = [h \in {} |-> 0]
    /\ messageQueue' = <<>>
    /\ op' = "ws.close"
    /\ wsBurst' = 0
    /\ UNCHANGED wsShifted
    /\ UNCHANGED <<nWsSocks, nextCleanup, wsNow, wsLastTx, wsDup, wsLast,
                   wsUses, nWsSends, nWsTicks>>
    /\ DwsOthersUnchanged

\* deduplicatedWebSocket.ts:255-269, the callback of the cleanup interval
WsCleanup ==
    /\ cleanupInterval
    /\ wsNow >= nextCleanup
    /\ nextCleanup' = nextCleanup + CleanupEveryMs
    /\ sentMessages' =
           [h \in {g \in DOMAIN sentMessages :
                     ~(wsNow - sentMessages[g] > messageTTL)} |-> sentMessages[h]]
    /\ messageQueue' =
           SelectSeq(messageQueue, LAMBDA item : wsNow - item.timestamp < messageTTL)
    /\ op' = "ws.cleanup"
    /\ wsBurst' = 0
    /\ UNCHANGED wsShifted
    /\ UNCHANGED <<wsSocks, nWsSocks, wsWs, cleanupInterval, wsNow, wsLastTx,
                   wsDup, wsLast, wsUses, nWsSends, nWsTicks>>
    /\ DwsOthersUnchanged

\* time passes (a run that repeats one message is followed within one
\* millisecond: its queue is what grows)
WsTick ==
    /\ nWsTicks < MaxWsTicks
    /\ Cardinality(wsUses) > 1
    /\ nWsTicks' = nWsTicks + 1
    /\ \E d \in TickSteps : wsNow' = wsNow + d
    /\ op' = "ws.tick"
    /\ UNCHANGED <<wsSocks, nWsSocks, wsWs, sentMessages, messageQueue,
                   cleanupInterval, nextCleanup, wsLastTx, wsDup, wsLast,
                   wsUses, nWsSends>>
    /\ wsBurst' = 0
    /\ UNCHANGED wsShifted
    /\ DwsOthersUnchanged

\* the wrapper after construction, used by an application that repeats one
\* message or by one that sends several
DwsInit ==
    /\ VoiceInitState
    /\ ucoReady = FALSE
    /\ variant = "Unmute.tsx"
    /\ ProvInitState
    /\ EngInitState
    /\ eRate = PCM_SAMPLE_RATE
    /\ eImpl = "worklet"
    /\ FnInitState
    /\ HookInitState
    /\ AuxInitState
    /\ wsUses \in {{MsgC}, {MsgAa, MsgBB, MsgC}}
    /\ op = "init"

DwsNext ==
    \/ WsConnect
    \/ WsOpens
    \/ WsCloses
    \/ WsSend
    \/ WsClose
    \/ WsCleanup
    \/ WsTick

DwsSpec == DwsInit /\ [][DwsNext]_vars

-----------------------------------------------------------------------------
(* DeduplicatedWebSocket: properties *)

\* the queue after queueing the message of the last send() call
QueuedLast(queue, last) ==
    LET pushed == Append(queue, [message |-> last.message, timestamp |-> wsNow,
                                 attempts |-> 0])
    IN  IF Len(pushed) > 50 THEN Tail(pushed) ELSE pushed

\* C35 (queue bound), as stated: the queue never holds more than 50
\* messages, and every send() called while the socket is not open returns
\* false, transmits nothing and queues its message at the end, discarding
\* the oldest message when the queue was full.
C35_QueueBound ==
    /\ [](Len(messageQueue) <= 50)
    /\ [][(op' = "ws.send" /\ ~WsIsOpen(wsSocks, wsWs))
            => /\ ~wsLast'.result
               /\ wsBurst' = 0
               /\ messageQueue' = QueuedLast(messageQueue, wsLast')]_vars

\* C35 amended: as above, except that a message whose hash was transmitted
\* less than debounceMs ago is dropped by send(), open socket or not: it is
\* neither transmitted nor queued.
C35_QueueBoundUnlessSkipped ==
    /\ [](Len(messageQueue) <= 50)
    /\ [][(op' = "ws.send" /\ ~WsIsOpen(wsSocks, wsWs))
            => /\ ~wsLast'.result
               /\ wsBurst' = 0
               /\ messageQueue' =
                    IF shouldSkipMessage(wsLast'.message) THEN messageQueue
                    ELSE QueuedLast(messageQueue, wsLast')]_vars
    /\ [][(op' = "ws.send" /\ shouldSkipMessage(wsLast'.message))
            => wsBurst' = 0 /\ ~wsLast'.result /\ UNCHANGED messageQueue]_vars

\* C35 witness: a send() with no open socket found the queue full, queued
\* its message and discarded the oldest
C35_Witness ==
    /\ op = "ws.send"
    /\ wsShifted
    /\ ~wsLast.result /\ ~wsLast.skipped
    /\ Len(messageQueue) = 50
    /\ messageQueue[50].message = wsLast.message

\* C36 (duplicate prevention): no message is handed to the socket less than
\* debounceMs after an identical message was, by send() or by the flush of
\* the queue at the open event.
C36_NoDuplicateTransmission == ~wsDup

-----------------------------------------------------------------------------
(* useRequestDeduplication (useRequestDeduplication.ts) *)

MaxRdCalls == 3    \* invocations of a request function
MaxRdKeys == 6     \* distinct WebSocket messages
MaxRdTicks == 1    \* advances of the clock

\* useRequestDeduplication.ts:26-30, DEFAULT_CONFIG
DefaultDebounceMs == 100
cacheMs == 1000
maxPendingRequests == 5

\* useRequestDeduplication.ts:51, the age at which cleanup drops a pending
\* request, in ms
PendingTimeoutMs == 30000

\* the advances of the clock: inside the debounce window, the window
\* exactly, past the timeout of a pending request
RdTickSteps == {50, 100, 30001}

\* useRequestDeduplication.ts:40-43, generateKey: the keys of the requests
\* ("r", identifier) and of the WebSocket messages ("ws", message)
RequestKeys == {<<"r", 1>>}
WsKey(m) == <<"ws", m>>


\* a map without key k
RdWithout(map, k) == [j \in DOMAIN map \ {k} |-> map[j]]

\* a map with key k set to v
With(map, k, v) == [j \in DOMAIN map \cup {k} |-> IF j = k THEN v ELSE map[j]]

\* useRequestDeduplication.ts:81, a cached response that is still fresh
CacheHit(key) ==
    key \in DOMAIN responseCache /\ rdNow - responseCache[key] < cacheMs

\* useRequestDeduplication.ts:90 and :148, a pending request made less than
\* debounceMs ago
PendingHit(key) ==
    /\ key \in DOMAIN pendingRequests
    /\ rdNow - pendingRequests[key].timestamp < DefaultDebounceMs

\* useRequestDeduplication.ts:98
AtLimit(pending) == Cardinality(DOMAIN pending) >= maxPendingRequests

RdOthersUnchanged ==
    /\ UNCHANGED rdRest
    /\ UNCHANGED voiceVars
    /\ UNCHANGED provVars
    /\ UNCHANGED engVars
    /\ UNCHANGED fnVars
    /\ UNCHANGED hookVars

\* useRequestDeduplication.ts:71-111, deduplicatedRequest up to its await:
\* the cached data, the pending promise, null at the limit, or the request
\* function invoked and its promise recorded
DeduplicatedRequest ==
    /\ \E key \in RequestKeys :
         IF CacheHit(key)
         THEN /\ rdLast' = "cached"
              /\ UNCHANGED <<pendingRequests, rdInFlight, rdStarted, rdTooSoon, nRdCalls>>
         ELSE IF PendingHit(key)
         THEN /\ rdLast' = "pending"
              /\ UNCHANGED <<pendingRequests, rdInFlight, rdStarted, rdTooSoon, nRdCalls>>
         ELSE IF AtLimit(pendingRequests)
         THEN /\ rdLast' = "null"
              /\ UNCHANGED <<pendingRequests, rdInFlight, rdStarted, rdTooSoon, nRdCalls>>
         ELSE /\ nRdCalls < MaxRdCalls
              /\ nRdCalls' = nRdCalls + 1
              /\ rdLast' = "invoked"
              /\ rdInFlight' = With(rdInFlight, nRdCalls + 1, [key |-> key, now |-> rdNow])
              /\ pendingRequests' = With(pendingRequests, key,
                                         [timestamp |-> rdNow])
              /\ rdTooSoon' = (rdTooSoon \/ (/\ key \in DOMAIN rdStarted
                                             /\ rdNow - rdStarted[key] < DefaultDebounceMs))
              /\ rdStarted' = With(rdStarted, key, rdNow)
    /\ op' = "rd.request"
    /\ UNCHANGED <<responseCache, rdNow, rdNextCleanup, nRdKeys, nRdTicks>>
    /\ RdOthersUnchanged

\* useRequestDeduplication.ts:113-129, the promise of a request function
\* settles: a result is cached under the time of the call (117), an error is
\* thrown on (125), and in both cases the key is deleted from the pending
\* requests (128)
RequestSettles ==
    /\ \E c \in DOMAIN rdInFlight, ok \in BOOLEAN :
         /\ rdInFlight' = RdWithout(rdInFlight, c)
         /\ responseCache' = IF ok THEN With(responseCache, rdInFlight[c].key, rdInFlight[c].now)
                             ELSE responseCache
         /\ pendingRequests' = RdWithout(pendingRequests, rdInFlight[c].key)
    /\ op' = "rd.settle"
    /\ UNCHANGED <<rdNow, rdNextCleanup, rdStarted, rdTooSoon, rdLast, nRdKeys,
                   nRdCalls, nRdTicks>>
    /\ RdOthersUnchanged

\* useRequestDeduplication.ts:133-169, deduplicatedWebSocketSend of message
\* m on a socket that is open or not (m is the message sent last or the
\* next new one)
DeduplicatedWebSocketSend ==
    /\ \E open \in BOOLEAN,
          m \in {nRdKeys, nRdKeys + 1} \cap 1..MaxRdKeys :
         IF ~open
         THEN /\ rdLast' = "notOpen"
              /\ UNCHANGED <<pendingRequests, nRdKeys>>
         ELSE IF PendingHit(WsKey(m))
         THEN /\ rdLast' = "skipped"
              /\ UNCHANGED <<pendingRequests, nRdKeys>>
         ELSE /\ rdLast' = "sent"
              /\ pendingRequests' = With(pendingRequests, WsKey(m),
                                         [timestamp |-> rdNow])
              /\ nRdKeys' = IF m > nRdKeys THEN m ELSE nRdKeys
    /\ op' = "rd.wsSend"
    /\ UNCHANGED <<responseCache, rdInFlight, rdNow, rdNextCleanup, rdStarted,
                   rdTooSoon, nRdCalls, nRdTicks>>
    /\ RdOthersUnchanged

\* useRequestDeduplication.ts:46-62 and :66, the callback of the cleanup
\* interval (a late callback is not made up for: the next one is due a
\* period later)
RdCleanup ==
    /\ rdNow >= rdNextCleanup
    /\ rdNextCleanup' = rdNow + RdCleanupEveryMs
    /\ pendingRequests' =
           [k \in {j \in DOMAIN pendingRequests :
                     ~(rdNow - pendingRequests[j].timestamp > PendingTimeoutMs)}
              |-> pendingRequests[k]]
    /\ responseCache' =
           [k \in {j \in DOMAIN responseCache :
                     ~(rdNow - responseCache[j] > cacheMs)} |-> responseCache[k]]
    /\ op' = "rd.cleanup"
    /\ UNCHANGED <<rdInFlight, rdNow, rdStarted, rdTooSoon, rdLast, nRdKeys,
                   nRdCalls, nRdTicks>>
    /\ RdOthersUnchanged

\* useRequestDeduplication.ts:172-175, clearCache
ClearCache ==
    /\ DOMAIN pendingRequests # {} \/ DOMAIN responseCache # {}
    /\ pendingRequests' = [k \in {} |-> 0]
    /\ responseCache' = [k \in {} |-> 0]
    /\ op' = "rd.clearCache"
    /\ UNCHANGED <<rdInFlight, rdNow, rdNextCleanup, rdStarted, rdTooSoon,
                   rdLast, nRdKeys, nRdCalls, nRdTicks>>
    /\ RdOthersUnchanged

\* time passes
RdTick ==
    /\ nRdTicks < MaxRdTicks
    /\ nRdTicks' = nRdTicks + 1
    /\ \E d \in RdTickSteps : rdNow' = rdNow + d
    /\ op' = "rd.tick"
    /\ UNCHANGED <<pendingRequests, responseCache, rdInFlight, rdNextCleanup,
                   rdStarted, rdTooSoon, rdLast, nRdKeys, nRdCalls>>
    /\ RdOthersUnchanged

RdInit ==
    /\ VoiceInitState
    /\ ucoReady = FALSE
    /\ variant = "Unmute.tsx"
    /\ ProvInitState
    /\ EngInitState
    /\ eRate = PCM_SAMPLE_RATE
    /\ eImpl = "worklet"
    /\ FnInitState
    /\ HookInitState
    /\ AuxInitState
    /\ wsUses = {}
    /\ op = "init"

RdNext ==
    \/ DeduplicatedRequest
    \/ RequestSettles
    \/ DeduplicatedWebSocketSend
    \/ RdCleanup
    \/ ClearCache
    \/ RdTick

RdSpec == RdInit /\ [][RdNext]_vars

-----------------------------------------------------------------------------
(* useRequestDeduplication: properties *)

\* C37 (concurrency limit): the tracked pending requests never exceed
\* maxPendingRequests (5), and a deduplicatedRequest made with 5 or more
\* tracked invokes nothing: it returns null, unless the cache or a pending
\* promise answers it first.
C37_ConcurrencyLimit ==
    /\ [](Cardinality(DOMAIN pendingRequests) <= 5)
    /\ [][(op' = "rd.request" /\ Cardinality(DOMAIN pendingRequests) >= 5)
            => /\ rdLast' \in {"null", "cached", "pending"}
               /\ nRdCalls' = nRdCalls]_vars

\* C38 (debounce): for every key, no two invocations of the request
\* function start less than debounceMs apart.
C38_DebounceIsMinimumGap == ~rdTooSoon

-----------------------------------------------------------------------------
(* LLM chat route (api/llm/chat/route.ts): the rate limiter *)

MaxRlTicks == 2    \* advances of the clock

\* route.ts:9-10
RATE_LIMIT == 10
RATE_WINDOW == 60000

\* the advances of the clock: inside a window, to the reset time of a
\* window opened a millisecond after the start, past it
RlTickSteps == {1, 60000, 60001}

\* route.ts:59-61, the client ids: a forwarded address and the id of the
\* requests without one
ClientIds == {"10.0.0.1", "unknown"}

\* the statuses of an admitted POST: answered, rejected by validation,
\* failed upstream or with an exception
AdmittedStatuses == {200, 400, 500}

\* a limiter that admits one request more
ExhaustedLoose(client) == client.count > RATE_LIMIT

\* route.ts:36, client.count >= RATE_LIMIT
Exhausted(client) == client.count >= RATE_LIMIT

\* route.ts:31, no entry, or the window of the entry is over
NewWindow(map, clientId) ==
    clientId \notin DOMAIN map \/ rlNow > map[clientId].resetTime

\* route.ts:27-42, the value checkRateLimit returns
checkRateLimit(map, clientId) ==
    NewWindow(map, clientId) \/ ~Exhausted(map[clientId])

\* route.ts:27-42, the map checkRateLimit leaves
RateLimitMapAfter(map, clientId) ==
    IF NewWindow(map, clientId)
    THEN [c \in DOMAIN map \cup {clientId} |->
            IF c = clientId THEN [count |-> 1, resetTime |-> rlNow + RATE_WINDOW]
            ELSE map[c]]
    ELSE IF Exhausted(map[clientId]) THEN map
    ELSE [map EXCEPT ![clientId].count = @ + 1]

\* the window of a client after one more admitted request: the window
\* lasts 60 s from its first admitted request
WindowAfter(win, clientId) ==
    IF clientId \in DOMAIN win /\ rlNow <= win[clientId].first + 60000
    THEN [win EXCEPT ![clientId].admitted = @ + 1]
    ELSE [c \in DOMAIN win \cup {clientId} |->
            IF c = clientId THEN [first |-> rlNow, admitted |-> 1] ELSE win[c]]

RlOthersUnchanged ==
    /\ UNCHANGED rlRest
    /\ UNCHANGED voiceVars
    /\ UNCHANGED provVars
    /\ UNCHANGED engVars
    /\ UNCHANGED fnVars
    /\ UNCHANGED hookVars

\* route.ts:55-70 and after, POST: the client id from the headers, the
\* rate limit, and for an admitted request verifyAuth (always true, 45-53),
\* request.json() and the rest of the handler
Post ==
    /\ \E clientId \in ClientIds :
         /\ rateLimitMap' = RateLimitMapAfter(rateLimitMap, clientId)
         /\ IF checkRateLimit(rateLimitMap, clientId)
            THEN /\ rlWindow' = WindowAfter(rlWindow, clientId)
                 /\ \E status \in AdmittedStatuses :
                      rlLast' = [client |-> clientId, status |-> status,
                                 auth |-> TRUE, body |-> TRUE]
            ELSE /\ rlLast' = [client |-> clientId, status |-> 429,
                               auth |-> FALSE, body |-> FALSE]
                 /\ UNCHANGED rlWindow
    /\ op' = "llm.post"
    /\ UNCHANGED <<rlNow, nRlTicks>>
    /\ RlOthersUnchanged

\* time passes
RlTick ==
    /\ nRlTicks < MaxRlTicks
    /\ nRlTicks' = nRlTicks + 1
    /\ \E d \in RlTickSteps : rlNow' = rlNow + d
    /\ op' = "llm.tick"
    /\ UNCHANGED <<rateLimitMap, rlWindow, rlLast>>
    /\ RlOthersUnchanged

RlInit ==
    /\ VoiceInitState
    /\ ucoReady = FALSE
    /\ variant = "Unmute.tsx"
    /\ ProvInitState
    /\ EngInitState
    /\ eRate = PCM_SAMPLE_RATE
    /\ eImpl = "worklet"
    /\ FnInitState
    /\ HookInitState
    /\ AuxInitState
    /\ wsUses = {}
    /\ op = "init"

RlNext ==
    \/ Post
    \/ RlTick

RlSpec == RlInit /\ [][RlNext]_vars

-----------------------------------------------------------------------------
(* LLM chat route: properties *)

\* the client of the last POST has used up its window: 10 requests were
\* admitted in it and its 60 s are not over
WindowUsedUp(c) ==
    /\ c \in DOMAIN rlWindow
    /\ rlWindow[c].admitted >= 10
    /\ rlNow <= rlWindow[c].first + 60000

\* C39 (rate limit): for every client id at most 10 POSTs are admitted in
\* the 60 s that follow the first admitted request of a window; a POST of a
\* client that has used up its window is answered 429 before verifyAuth and
\* request.json() run and leaves the stored count alone; a POST after the
\* reset time of the stored window is admitted and stores count 1 and a new
\* reset time.
C39_RateLimit ==
    /\ [](\A c \in DOMAIN rlWindow : rlWindow[c].admitted <= 10)
    /\ [][(op' = "llm.post" /\ WindowUsedUp(rlLast'.client))
            => /\ rlLast'.status = 429
               /\ ~rlLast'.auth /\ ~rlLast'.body
               /\ rateLimitMap' = rateLimitMap]_vars
    /\ [][(/\ op' = "llm.post"
           /\ rlLast'.client \in DOMAIN rateLimitMap
           /\ rlNow > rateLimitMap[rlLast'.client].resetTime)
            => /\ rlLast'.status # 429
               /\ rateLimitMap'[rlLast'.client] =
                    [count |-> 1, resetTime |-> rlNow + 60000]
               /\ rlWindow'[rlLast'.client] = [first |-> rlNow, admitted |-> 1]]_vars

\* C39 witness: the eleventh POST of a client inside its window was answered
\* 429 while another client is still being admitted
C39_Witness ==
    /\ op = "llm.post"
    /\ rlLast.status = 429
    /\ rlWindow[rlLast.client].admitted = 10
    /\ rateLimitMap[rlLast.client].count = 10
    /\ \E c \in DOMAIN rateLimitMap : rateLimitMap[c].count < 10

=============================================================================
